---- MODULE Spec2Model ----
(***************************************************************************)
(* Media-asset lifecycle of the Patwa.Toli backend: the multer upload      *)
(* gateway, the Cloudinary helper (upload / destroy / public-id parsing)   *)
(* and the controllers that bind uploaded assets to users, posts, stories, *)
(* events and businesses.                                                  *)
(*                                                                         *)
(* Strings that the code inspects character by character (MIME types,     *)
(* URLs, public ids) are sequences of one-character strings.  Null,       *)
(* undefined and the empty string, which the code tests alike with `!x`,  *)
(* are the empty sequence.                                                 *)
(***************************************************************************)
EXTENDS Integers, Sequences, FiniteSets, TLC

\* ------------------------------------------------------------------ bounds
\* requests received in one run
MaxRequests == 2
\* documents of each kind (posts, stories, events, businesses)
MaxDocs == 2
\* registered, verified users; user 1 is the admin
NumUsers == 2
\* direct calls of the Cloudinary helper in one run
MaxHelperCalls == 4
\* of them, calls of uploadToCloudinary
MaxHelperUploads == 1
\* requests received in one run on an earlier-stored document
MaxStoredRequests == 2
\* requests the server handles at the same time in a concurrent run
MaxConcurrent == 2
\* requests received in one concurrent run
MaxRaceRequests == 2
\* requests that pass through protect in one run
MaxAuthRequests == 2
\* signup, login and admin requests received in one concurrent run
MaxAccountRequests == 3
\* follow and unfollow requests received in one concurrent run
MaxFollowRequests == 2

\* ------------------------------------------------------------ text helpers
Null == <<>>

\* userController.js: const DEFAULT_AVATAR_PATH
DEFAULT_AVATAR_PATH ==
    <<"/", "u", "p", "l", "o", "a", "d", "s", "/", "p", "r", "o", "f", "i", "l", "e", "-", "p", "i", "c", "s", "/", "d", "e", "f", "a", "u", "l", "t", "_", "a", "v", "a", "t", "a", "r", ".", "p", "n", "g">>

\* literal tested by getPublicIdFromUrl
STR_cloudinary_com ==
    <<"c", "l", "o", "u", "d", "i", "n", "a", "r", "y", ".", "c", "o", "m">>

\* literal path segment searched by getPublicIdFromUrl
STR_upload ==
    <<"u", "p", "l", "o", "a", "d">>

\* prefix tested by the file filters
STR_image_slash ==
    <<"i", "m", "a", "g", "e", "/">>

\* prefix tested by mediaFileFilter
STR_video_slash ==
    <<"v", "i", "d", "e", "o", "/">>

\* prefix tested by createStory; resource type
STR_image ==
    <<"i", "m", "a", "g", "e">>

\* prefix tested by createStory; resource type
STR_video ==
    <<"v", "i", "d", "e", "o">>

FOLDER_posts ==
    <<"p", "a", "t", "w", "a", "_", "t", "o", "l", "i", "/", "p", "o", "s", "t", "s">>

FOLDER_stories ==
    <<"p", "a", "t", "w", "a", "_", "t", "o", "l", "i", "/", "s", "t", "o", "r", "i", "e", "s">>

FOLDER_events ==
    <<"p", "a", "t", "w", "a", "_", "t", "o", "l", "i", "/", "e", "v", "e", "n", "t", "s">>

FOLDER_businesses ==
    <<"p", "a", "t", "w", "a", "_", "t", "o", "l", "i", "/", "b", "u", "s", "i", "n", "e", "s", "s", "e", "s">>

FOLDER_profile_pics ==
    <<"p", "a", "t", "w", "a", "_", "t", "o", "l", "i", "/", "p", "r", "o", "f", "i", "l", "e", "-", "p", "i", "c", "s">>

\* delivery URL prefix, as in the example of getPublicIdFromUrl
DeliveryPrefix ==
    <<"h", "t", "t", "p", "s", ":", "/", "/", "r", "e", "s", ".", "c", "l", "o", "u", "d", "i", "n", "a", "r", "y", ".", "c", "o", "m", "/", "d", "e", "m", "o", "/">>

\* upload marker and version segment of a delivery URL
UploadVersion ==
    <<"/", "u", "p", "l", "o", "a", "d", "/", "v", "1", "2", "3", "/">>

MIME_image_png ==
    <<"i", "m", "a", "g", "e", "/", "p", "n", "g">>

MIME_image_jpeg ==
    <<"i", "m", "a", "g", "e", "/", "j", "p", "e", "g">>

MIME_video_mp4 ==
    <<"v", "i", "d", "e", "o", "/", "m", "p", "4">>

MIME_application_pdf ==
    <<"a", "p", "p", "l", "i", "c", "a", "t", "i", "o", "n", "/", "p", "d", "f">>

MIME_image_noslash ==
    <<"i", "m", "a", "g", "e">>

MIME_text_image ==
    <<"t", "e", "x", "t", "/", "i", "m", "a", "g", "e", "/", "p", "n", "g">>

EXT_jpg ==
    <<".", "j", "p", "g">>

EXT_mp4 ==
    <<".", "m", "p", "4">>

Digits == {"0", "1", "2", "3", "4", "5", "6", "7", "8", "9"}

\* String.prototype.startsWith
StartsWith(s, p) ==
    /\ Len(s) >= Len(p)
    /\ SubSeq(s, 1, Len(p)) = p

\* String.prototype.includes
Includes(s, sub) ==
    \E i \in 1..(Len(s) - Len(sub) + 1) : SubSeq(s, i, i + Len(sub) - 1) = sub

\* String.prototype.split(sep) for a one-character separator
\* (one step per segment: the piece up to the next separator, then the rest)
RECURSIVE SplitFrom(_, _, _)
SplitFrom(s, sep, i) ==
    LET seps == {j \in i..Len(s) : s[j] = sep}
    IN  IF seps = {} THEN <<SubSeq(s, i, Len(s))>>
        ELSE LET j == CHOOSE k \in seps : \A m \in seps : k <= m
             IN  <<SubSeq(s, i, j - 1)>> \o SplitFrom(s, sep, j + 1)

Split(s, sep) == SplitFrom(s, sep, 1)

\* Array.prototype.join(sep)
RECURSIVE Join(_, _)
Join(parts, sep) ==
    IF Len(parts) = 0 THEN <<>>
    ELSE IF Len(parts) = 1 THEN parts[1]
    ELSE parts[1] \o <<sep>> \o Join(Tail(parts), sep)

\* Array.prototype.indexOf, 1-based; 0 stands for JavaScript's -1
IndexOf(parts, x) ==
    IF \E i \in 1..Len(parts) : parts[i] = x
    THEN CHOOSE i \in 1..Len(parts) :
            /\ parts[i] = x
            /\ \A j \in 1..(i - 1) : parts[j] # x
    ELSE 0

\* String.prototype.lastIndexOf for one character, 1-based; 0 for -1
LastIndexOf(s, c) ==
    IF \E i \in 1..Len(s) : s[i] = c
    THEN CHOOSE i \in 1..Len(s) :
            /\ s[i] = c
            /\ \A j \in (i + 1)..Len(s) : s[j] # c
    ELSE 0

\* isNaN(parseInt(s)): parseInt yields a number exactly when s, after an
\* optional sign, starts with a decimal digit (no whitespace occurs in the
\* strings of this model)
ParseIntIsNaN(s) ==
    LET t == IF Len(s) > 0 /\ s[1] \in {"+", "-"} THEN Tail(s) ELSE s
    IN  \/ Len(t) = 0
        \/ t[1] \notin Digits

\* ------------------------------------------------------- cloudinaryHelper
\* part => part.startsWith('v') && !isNaN(parseInt(part.substring(1)))
IsVersionPart(part) ==
    /\ StartsWith(part, <<"v">>)
    /\ ~ParseIntIsNaN(Tail(part))

\* Array.prototype.findIndex with IsVersionPart, 1-based; 0 for -1
FindVersionIndex(parts) ==
    IF \E i \in 1..Len(parts) : IsVersionPart(parts[i])
    THEN CHOOSE i \in 1..Len(parts) :
            /\ IsVersionPart(parts[i])
            /\ \A j \in 1..(i - 1) : ~IsVersionPart(parts[j])
    ELSE 0

\* variant: the 'upload' segment is not looked for
getPublicIdFromUrl_noupload(url) ==
    IF url = Null \/ ~Includes(url, STR_cloudinary_com) THEN Null
    ELSE LET parts == Split(url, "/")
             transformationIndex == FindVersionIndex(parts)
         IN  IF \/ transformationIndex = 0
                \/ transformationIndex + 1 > Len(parts)
             THEN Null
             ELSE LET publicIdWithExt ==
                          Join(SubSeq(parts, transformationIndex + 1, Len(parts)), "/")
                      lastDotIndex == LastIndexOf(publicIdWithExt, ".")
                  IN  IF lastDotIndex = 0 THEN publicIdWithExt
                      ELSE SubSeq(publicIdWithExt, 1, lastDotIndex - 1)

\* variant: the extension is not stripped
getPublicIdFromUrl_keepext(url) ==
    IF url = Null \/ ~Includes(url, STR_cloudinary_com) THEN Null
    ELSE LET parts == Split(url, "/")
             uploadIndex == IndexOf(parts, STR_upload)
             transformationIndex == FindVersionIndex(parts)
         IN  IF \/ uploadIndex = 0
                \/ transformationIndex = 0
                \/ transformationIndex <= uploadIndex
                \/ transformationIndex + 1 > Len(parts)
             THEN Null
             ELSE Join(SubSeq(parts, transformationIndex + 1, Len(parts)), "/")

\* getPublicIdFromUrl(url): the public id, or Null
getPublicIdFromUrl(url) ==
    IF url = Null \/ ~Includes(url, STR_cloudinary_com) THEN Null
    ELSE LET parts == Split(url, "/")
             uploadIndex == IndexOf(parts, STR_upload)
             transformationIndex == FindVersionIndex(parts)
         IN  IF \/ uploadIndex = 0
                \/ transformationIndex = 0
                \/ transformationIndex <= uploadIndex
                \/ transformationIndex + 1 > Len(parts)
             THEN Null
             ELSE LET publicIdWithExt ==
                          Join(SubSeq(parts, transformationIndex + 1, Len(parts)), "/")
                      lastDotIndex == LastIndexOf(publicIdWithExt, ".")
                  IN  IF lastDotIndex = 0 THEN publicIdWithExt
                      ELSE SubSeq(publicIdWithExt, 1, lastDotIndex - 1)

\* secure_url of an upload result: the delivery URL of public id `pid`
\* stored as resource type `rtype` with file extension `ext`
SecureUrl(pid, rtype, ext) ==
    DeliveryPrefix \o rtype \o UploadVersion \o pid \o ext

\* the name the remote store gives the n-th uploaded asset
AssetName(n) == <<"a", CHOOSE d \in Digits : d = ToString(n)>>

\* cloudinary.uploader.upload(dataUri, {folder, resource_type: 'auto'}):
\* the result of a successful upload of `file` as the n-th asset
UploadResult(file, folder, n) ==
    LET isVideo == StartsWith(file.mime, STR_video)
        pid     == folder \o <<"/">> \o AssetName(n)
    IN  [secure_url |-> IF isVideo THEN SecureUrl(pid, STR_video, EXT_mp4)
                        ELSE SecureUrl(pid, STR_image, EXT_jpg),
         public_id  |-> pid,
         rtype      |-> IF isVideo THEN "video" ELSE "image"]

NoUploadResult == [secure_url |-> Null, public_id |-> Null, rtype |-> ""]

\* what the remote store may answer to an upload: the asset is stored, the
\* call throws, or it resolves with a result that carries no URL
UploadOutcomes == {"ok", "error", "nourl"}

\* what the remote store may answer to a destroy: {result: 'ok'},
\* {result: 'not found'}, another result value, or a thrown error
DestroyOutcomes == {"ok", "not found", "other", "error"}

\* variant: only {result: 'ok'} resolves
deleteFromCloudinary_strict(publicId, out) ==
    IF publicId = Null THEN "resolved"
    ELSE IF out = "ok" THEN "resolved"
    ELSE "rejected"

\* deleteFromCloudinary(publicId, resourceType), given the remote store's
\* answer: the promise resolves (without a remote call when there is no
\* public id), or rejects when the remote call throws
deleteFromCloudinary(publicId, out) ==
    IF publicId = Null THEN "resolved"
    ELSE IF out = "error" THEN "rejected"
    ELSE "resolved"

\* -------------------------------------------------------- uploadMiddleware
FIVE_MB == 5 * 1024 * 1024
FIFTY_MB == 50 * 1024 * 1024
TEN_MB == 10 * 1024 * 1024
TWENTY_FIVE_MB == 25 * 1024 * 1024

NoFile == [present |-> FALSE, mime |-> Null, size |-> 0, buffer |-> FALSE]

\* variant: the image filter tests the prefix 'image' without the slash
imageFileFilter_noslash(file) == StartsWith(file.mime, STR_image)

imageFileFilter(file) == StartsWith(file.mime, STR_image_slash)

mediaFileFilter(file) ==
    \/ StartsWith(file.mime, STR_image_slash)
    \/ StartsWith(file.mime, STR_video_slash)

\* the five multer instances by asset class: file filter and limits.fileSize
AssetClasses == {"profilePic", "postMedia", "storyMedia", "eventImage", "businessImage"}

FileFilter(class, file) ==
    IF class \in {"postMedia", "storyMedia"} THEN mediaFileFilter(file)
    ELSE imageFileFilter(file)

\* variant: every multer instance is given the post limit
FileSizeLimit_shared(class) == FIFTY_MB

FileSizeLimit(class) ==
    CASE class = "profilePic" -> FIVE_MB
      [] class = "postMedia" -> FIFTY_MB
      [] class = "storyMedia" -> TWENTY_FIVE_MB
      [] class = "eventImage" -> TEN_MB
      [] class = "businessImage" -> TEN_MB

\* multer on one incoming file: "" when the file is accepted (or absent),
\* else the code of the MulterError passed to next().  The filter sees the
\* declared MIME type before the body is read; the size limit trips while
\* the body streams in.
MulterFile(class, file) ==
    IF ~file.present THEN ""
    ELSE IF ~FileFilter(class, file) THEN "LIMIT_UNEXPECTED_FILE"
    ELSE IF file.size > FileSizeLimit(class) THEN "LIMIT_FILE_SIZE"
    ELSE ""

\* multer on the files of a request, in order: the first error ends it
RECURSIVE Multer(_, _)
Multer(class, files) ==
    IF Len(files) = 0 THEN ""
    ELSE LET e == MulterFile(class, Head(files))
         IN  IF e # "" THEN e ELSE Multer(class, Tail(files))

\* ------------------------------------------------------------------ server
NoError == [name |-> "", statusCode |-> 0, code |-> ""]
PlainError == [name |-> "Error", statusCode |-> 0, code |-> ""]
StatusError(status) == [name |-> "Error", statusCode |-> status, code |-> ""]
MulterError(code) == [name |-> "MulterError", statusCode |-> 0, code |-> code]
ValidationError == [name |-> "ValidationError", statusCode |-> 0, code |-> ""]
DuplicateKeyError == [name |-> "MongoServerError", statusCode |-> 0, code |-> "11000"]

\* variant: the handler without its MulterError branch
GlobalErrorHandler_plain(err) ==
    LET statusCode == IF err.statusCode # 0 THEN err.statusCode ELSE 500
    IN  IF err.name = "ValidationError" THEN [status |-> 400, code |-> ""]
        ELSE [status |-> statusCode, code |-> ""]

\* the global error handler: the response it sends for `err`
GlobalErrorHandler(err) ==
    LET statusCode == IF err.statusCode # 0 THEN err.statusCode ELSE 500
    IN  IF err.name = "MulterError" THEN [status |-> 400, code |-> err.code]
        ELSE IF err.name = "ValidationError" THEN [status |-> 400, code |-> ""]
        ELSE IF err.code = "11000" THEN [status |-> 400, code |-> ""]
        ELSE [status |-> statusCode, code |-> ""]

\* ------------------------------------------------------------------- state
VARIABLES
    db,         \* the document store: db[kind][id], a document or a blank
    nextDoc,    \* nextDoc[kind]: the id the next created document gets
    remote,     \* the assets held by the remote store: [pid, rtype]
    uploads,    \* number of assets the remote store has stored so far
    gone,       \* public ids on which a remote destroy has succeeded
    calls,      \* every call made to the remote store, by request, with the file sent
    req,        \* req[s]: the request handled in slot s
    started,    \* number of requests received so far
    helper,     \* a direct use of the Cloudinary helper: its argument and results
    auth,       \* the protect middleware on the request at hand
    following,  \* following[u]: the ids user u follows, as the stored array
    followers,  \* followers[u]: the ids that follow user u, as the stored array
    follow,     \* follow[s]: the follow or unfollow request handled in slot s
    accounts,   \* accounts[u]: the user record registered under username u
    acct,       \* acct[s]: the signup, login or admin request handled in slot s
    issued      \* the tokens login has sent: [n, user, verified]

vars == <<db, nextDoc, remote, uploads, gone, calls, req, started, helper, auth, following, followers, follow, accounts, acct, issued>>

Kinds == {"user", "post", "story", "event", "business"}
Users == 1..NumUsers
DocIds == 1..MaxDocs
Ids(kind) == IF kind = "user" THEN Users ELSE DocIds
Slots == {1}

\* req.user.isAdmin
IsAdmin(u) == u = 1

CreateOps == {"createPost", "createStory", "createEvent", "createBusiness"}
UpdateOps == {"updateMyProfile", "updateEvent", "updateBusiness"}
DeleteOps == {"deletePost", "deleteStory", "deleteEvent", "deleteBusiness"}
Ops == CreateOps \cup UpdateOps \cup DeleteOps

KindOf(op) ==
    CASE op \in {"createPost", "deletePost"} -> "post"
      [] op \in {"createStory", "deleteStory"} -> "story"
      [] op \in {"createEvent", "updateEvent", "deleteEvent"} -> "event"
      [] op \in {"createBusiness", "updateBusiness", "deleteBusiness"} -> "business"
      [] op = "updateMyProfile" -> "user"

\* the multer instance mounted on the route of `op`; "none" when the route
\* has no upload middleware
ClassOf(op) ==
    CASE op = "createPost" -> "postMedia"
      [] op = "createStory" -> "storyMedia"
      [] op \in {"createEvent", "updateEvent"} -> "eventImage"
      [] op \in {"createBusiness", "updateBusiness"} -> "businessImage"
      [] op \in {"updateMyProfile", "signup"} -> "profilePic"
      [] OTHER -> "none"

\* variant: the business controllers upload into the events folder
UploadFolder_events(op) ==
    CASE op = "createPost" -> FOLDER_posts
      [] op = "createStory" -> FOLDER_stories
      [] op \in {"createEvent", "updateEvent"} -> FOLDER_events
      [] op \in {"createBusiness", "updateBusiness"} -> FOLDER_events
      [] op = "updateMyProfile" -> FOLDER_profile_pics

\* the folder each controller passes to uploadToCloudinary
UploadFolder(op) ==
    CASE op = "createPost" -> FOLDER_posts
      [] op = "createStory" -> FOLDER_stories
      [] op \in {"createEvent", "updateEvent"} -> FOLDER_events
      [] op \in {"createBusiness", "updateBusiness"} -> FOLDER_businesses
      [] op = "updateMyProfile" -> FOLDER_profile_pics

\* A document.  url is the media field (profilePic, image or video,
\* mediaUrl, image), pid the stored public id (none for users, and none for
\* posts, whose schema has no such path), mtype which media field of a post
\* or story is set, text the text fields taken together.
BlankDoc == [live |-> FALSE, owner |-> 0, url |-> Null, pid |-> Null,
             text |-> "", mtype |-> ""]

\* a registered user: profilePic has the schema default
UserDoc(u) == [live |-> TRUE, owner |-> u, url |-> DEFAULT_AVATAR_PATH,
               pid |-> Null, text |-> "t0", mtype |-> ""]

\* Text fields of a request body: "" (absent), "t1" (valid), "bad" (present
\* but longer than the schema's maxlength)
Texts == {"", "t1", "bad"}

\* No use of the helper yet.  url is the URL at hand (an input, or the
\* secure_url of the last upload), id the public id a constructed input was
\* built around, up the last upload result, handle the last result of
\* getPublicIdFromUrl (once derived), settled and out the last
\* deleteFromCloudinary, log every derivation made, n the calls made; upFile,
\* upSettled, upNull, upError and upN the argument, the settlement, whether it
\* resolved with null, the error and the number of the last uploadToCloudinary.
IdleHelper ==
    [url |-> Null, shaped |-> FALSE, id |-> Null, up |-> NoUploadResult,
     derived |-> FALSE, handle |-> Null, deleted |-> Null, settled |-> "",
     out |-> "", log |-> {}, n |-> 0,
     upFile |-> NoFile, upSettled |-> "", upNull |-> FALSE, upError |-> "",
     upN |-> 0]

\* protect has not run yet.  header is the Authorization header of the
\* request at hand, token what protect took from it, sends the calls of
\* res.status(401).json made, nexts the calls of next(), status the status
\* of the response that went out, threw whether a send after the response
\* had gone out threw, log what protect did on the requests before.
IdleAuth ==
    [n |-> 0, header |-> Null, token |-> Null, id |-> 0, pc |-> "idle",
     sends |-> 0, nexts |-> 0, status |-> 0, threw |-> FALSE, log |-> {}]

\* ---------------------------------------------------------- user accounts
\* a user record as the account controllers use it; `id` is the _id the
\* record got when it was created (0: no record under this username)
NoAccount ==
    [live |-> FALSE, id |-> 0, verified |-> FALSE, isAdmin |-> FALSE,
     profilePic |-> Null]

\* a user that signed up, was approved and has logged in: the caller of
\* every route behind `protect`
MemberAccount(u) ==
    [live |-> TRUE, id |-> u, verified |-> TRUE, isAdmin |-> IsAdmin(u),
     profilePic |-> DEFAULT_AVATAR_PATH]

NoFollows == [u \in Users |-> <<>>]

IdleFollow ==
    [n |-> 0, op |-> "none", caller |-> 0, target |-> 0, pc |-> "idle",
     status |-> 0]

\* a signup, login or admin request: its inputs (`username` for signup and
\* login, `target` for the admin routes), the record its lookup returned
\* (`seen`), the files multer wrote for it and what it answered
IdleAcct ==
    [n |-> 0, op |-> "none", username |-> 0, target |-> 0, body |-> "",
     password |-> FALSE, file |-> NoFile, wrote |-> {}, pc |-> "idle",
     seen |-> NoAccount, status |-> 0, token |-> FALSE]

\* no follow, signup, login or admin request is at work: every user is a
\* member and nobody follows anybody
NoAccountWork ==
    /\ following = NoFollows
    /\ followers = NoFollows
    /\ follow = [s \in Slots |-> IdleFollow]
    /\ accounts = [u \in Users |-> MemberAccount(u)]
    /\ acct = [s \in Slots |-> IdleAcct]
    /\ issued = {}

IdleReq ==
    [n |-> 0, op |-> "none", caller |-> 0, target |-> 0, text |-> "",
     files |-> <<>>, pc |-> "idle", old |-> Null, oldUrl |-> Null,
     rtype |-> "", up |-> NoUploadResult, upOut |-> "", delOut |-> "",
     status |-> 0, code |-> "", trace |-> <<>>,
     existed |-> FALSE, byOwner |-> FALSE, byAdmin |-> FALSE]

\* res.status(...).json(...), or next(err) into the global error handler:
\* the request is finished with that response
Respond(r, status) == [r EXCEPT !.pc = "done", !.status = status]

Fail(r, err) ==
    LET resp == GlobalErrorHandler(err)
    IN  [r EXCEPT !.pc = "done", !.status = resp.status, !.code = resp.code]

\* ------------------------------------------------------------ controllers
\* The part of each controller that runs before its first call to the
\* remote store or write to the document store: pc is the call it then
\* awaits, err the error it passes to next() instead
Plan(pc, old, oldUrl, rtype) ==
    [pc |-> pc, err |-> NoError, old |-> old, oldUrl |-> oldUrl, rtype |-> rtype]

Reject(err) == [pc |-> "done", err |-> err, old |-> Null, oldUrl |-> Null, rtype |-> ""]

\* variant: the video wins when both files are sent
PostFile_videofirst(files) == IF files[2].present THEN files[2] ELSE files[1]

\* createPost: prioritize image if both sent
PostFile(files) == IF files[1].present THEN files[1] ELSE files[2]

createPost_begin(text, files) ==
    IF text = "" /\ ~files[1].present /\ ~files[2].present THEN Reject(PlainError)
    ELSE IF files[1].present \/ files[2].present THEN Plan("upload", Null, Null, "")
    ELSE Plan("save", Null, Null, "")

createStory_begin(text, files) ==
    IF ~files[1].present THEN Reject(PlainError)
    ELSE IF text = "bad" THEN Reject(PlainError)
    ELSE IF StartsWith(files[1].mime, STR_image) THEN Plan("upload", Null, Null, "")
    ELSE IF StartsWith(files[1].mime, STR_video) THEN Plan("upload", Null, Null, "")
    ELSE Reject(PlainError)

createEvent_begin(text, files) ==
    IF text = "" THEN Reject(PlainError)
    ELSE IF files[1].present THEN Plan("upload", Null, Null, "")
    ELSE Plan("save", Null, Null, "")

createBusiness_begin(text, files) ==
    IF text = "" THEN Reject(PlainError)
    ELSE IF files[1].present THEN Plan("upload", Null, Null, "")
    ELSE Plan("save", Null, Null, "")

\* variant: the old public id is the stored path without its leading slash
\* and extension, whatever the path is
updateMyProfile_begin_naive(user, files) ==
    LET oldProfilePicUrl == user.url
        lastDotIndex == LastIndexOf(oldProfilePicUrl, ".")
        old == IF lastDotIndex = 0 THEN Tail(oldProfilePicUrl)
               ELSE SubSeq(oldProfilePicUrl, 2, lastDotIndex - 1)
    IN  IF ~user.live THEN Reject(StatusError(404))
        ELSE IF files[1].present THEN Plan("upload", old, oldProfilePicUrl, "auto")
        ELSE Plan("save", old, oldProfilePicUrl, "auto")

\* updateMyProfile: the old picture is to be destroyed when its URL yields a
\* public id and is not the default placeholder
updateMyProfile_begin(user, files) ==
    LET oldProfilePicUrl == user.url
        oldPublicId == getPublicIdFromUrl(oldProfilePicUrl)
        old == IF oldPublicId # Null /\ oldProfilePicUrl # DEFAULT_AVATAR_PATH
               THEN oldPublicId ELSE Null
    IN  IF ~user.live THEN Reject(StatusError(404))
        ELSE IF files[1].present THEN Plan("upload", old, oldProfilePicUrl, "auto")
        ELSE Plan("save", old, oldProfilePicUrl, "auto")

\* variant: an update without a new image deletes the stored one all the same
updateEvent_begin_destroys(event, caller, files) ==
    IF ~event.live THEN Reject(StatusError(404))
    ELSE IF event.owner # caller /\ ~IsAdmin(caller) THEN Reject(StatusError(403))
    ELSE IF files[1].present THEN Plan("upload", event.pid, event.url, "auto")
    ELSE Plan("destroy", event.pid, event.url, "auto")

updateEvent_begin(event, caller, files) ==
    IF ~event.live THEN Reject(StatusError(404))
    ELSE IF event.owner # caller /\ ~IsAdmin(caller) THEN Reject(StatusError(403))
    ELSE IF files[1].present THEN Plan("upload", event.pid, event.url, "auto")
    ELSE Plan("save", event.pid, event.url, "auto")

updateBusiness_begin(business, caller, files) ==
    IF ~business.live THEN Reject(StatusError(404))
    ELSE IF business.owner # caller /\ ~IsAdmin(caller) THEN Reject(StatusError(403))
    ELSE IF files[1].present THEN Plan("upload", business.pid, business.url, "auto")
    ELSE Plan("save", business.pid, business.url, "auto")

deletePost_begin(post, caller) ==
    IF ~post.live THEN Reject(StatusError(404))
    ELSE IF post.owner # caller /\ ~IsAdmin(caller) THEN Reject(StatusError(403))
    ELSE LET publicIdToDelete ==
                 IF post.pid # Null THEN post.pid ELSE getPublicIdFromUrl(post.url)
             resourceType == IF post.mtype = "video" THEN "video" ELSE "image"
         IN  IF publicIdToDelete # Null
             THEN Plan("destroy", publicIdToDelete, post.url, resourceType)
             ELSE Plan("remove", Null, post.url, "")

\* variant: without a stored public id the media URL itself is deleted by
deleteStory_begin_byurl(story, caller) ==
    IF ~story.live THEN Reject(StatusError(404))
    ELSE IF story.owner # caller THEN Reject(StatusError(403))
    ELSE IF story.pid # Null THEN Plan("destroy", story.pid, story.url, "auto")
    ELSE IF story.url # Null THEN Plan("destroy", story.url, story.url, "auto")
    ELSE Plan("remove", Null, story.url, "")

\* variant: deleteStory admits admins, as the other delete controllers do
deleteStory_begin_admin(story, caller) ==
    IF ~story.live THEN Reject(StatusError(404))
    ELSE IF story.owner # caller /\ ~IsAdmin(caller) THEN Reject(StatusError(403))
    ELSE IF story.pid # Null THEN Plan("destroy", story.pid, story.url, "auto")
    ELSE Plan("remove", Null, story.url, "")

deleteStory_begin(story, caller) ==
    IF ~story.live THEN Reject(StatusError(404))
    ELSE IF story.owner # caller THEN Reject(StatusError(403))
    ELSE IF story.pid # Null THEN Plan("destroy", story.pid, story.url, "auto")
    ELSE Plan("remove", Null, story.url, "")

deleteEvent_begin(event, caller) ==
    IF ~event.live THEN Reject(StatusError(404))
    ELSE IF event.owner # caller /\ ~IsAdmin(caller) THEN Reject(StatusError(403))
    ELSE IF event.pid # Null THEN Plan("destroy", event.pid, event.url, "auto")
    ELSE Plan("remove", Null, event.url, "")

deleteBusiness_begin(business, caller) ==
    IF ~business.live THEN Reject(StatusError(404))
    ELSE IF business.owner # caller /\ ~IsAdmin(caller) THEN Reject(StatusError(403))
    ELSE IF business.pid # Null THEN Plan("destroy", business.pid, business.url, "auto")
    ELSE Plan("remove", Null, business.url, "")

Begin(op, caller, doc, text, files) ==
    CASE op = "createPost" -> createPost_begin(text, files)
      [] op = "createStory" -> createStory_begin(text, files)
      [] op = "createEvent" -> createEvent_begin(text, files)
      [] op = "createBusiness" -> createBusiness_begin(text, files)
      [] op = "updateMyProfile" -> updateMyProfile_begin(doc, files)
      [] op = "updateEvent" -> updateEvent_begin(doc, caller, files)
      [] op = "updateBusiness" -> updateBusiness_begin(doc, caller, files)
      [] op = "deletePost" -> deletePost_begin(doc, caller)
      [] op = "deleteStory" -> deleteStory_begin(doc, caller)
      [] op = "deleteEvent" -> deleteEvent_begin(doc, caller)
      [] op = "deleteBusiness" -> deleteBusiness_begin(doc, caller)

\* the file a controller hands to uploadToCloudinary
ChosenFile(op, files) == IF op = "createPost" THEN PostFile(files) ELSE files[1]

\* variant: the controllers go on without testing the upload result
UploadAccepted_unchecked(op, res) == TRUE

\* variant: the update controllers go on without testing the upload result
UploadAccepted_updates(op, res) ==
    IF op \in UpdateOps THEN TRUE
    ELSE IF op = "createEvent" THEN res.secure_url # Null
    ELSE res.secure_url # Null /\ res.public_id # Null

\* each controller's test of the upload result before it goes on
UploadAccepted(op, res) ==
    IF op \in {"createEvent", "updateEvent", "updateBusiness"}
    THEN res.secure_url # Null
    ELSE res.secure_url # Null /\ res.public_id # Null

\* variant: an update controller starts the destroy of the old asset and
\* goes on to save() without awaiting it
AfterUpload_unawaited(op, old) == "save"

\* where a controller goes once its upload is accepted: an update
\* controller destroys the old asset, if there is one to destroy, then saves
AfterUpload(op, old) ==
    IF op \in UpdateOps /\ old # Null THEN "destroy" ELSE "save"

\* variant: an update controller lets a rejected destroy reach next()
AfterDestroyUpdate_rethrow(settled) == IF settled = "rejected" THEN "fail" ELSE "save"

\* where a controller goes once deleteFromCloudinary has settled: every
\* call sits in a try/catch that logs a rejection and carries on
AfterDestroyUpdate(settled) == "save"

\* variant: a delete controller lets a rejected destroy reach next()
AfterDestroyDelete_rethrow(settled) == IF settled = "rejected" THEN "fail" ELSE "remove"

AfterDestroyDelete(settled) == "remove"

AfterDestroy(op, settled) ==
    IF op \in UpdateOps THEN AfterDestroyUpdate(settled) ELSE AfterDestroyDelete(settled)

\* variant: a create controller uploads again when save() has failed
AfterSaveFailed_retry(op) == IF op \in CreateOps THEN "upload" ELSE "done"

\* where a controller goes once save() has thrown: its catch passes the
\* error to next(), with no other call
AfterSaveFailed(op) == "done"

\* whether save() fails with a ValidationError: a text field over its
\* maxlength; a post whose content is empty (content is required)
SaveInvalid(op, text) ==
    CASE op = "createPost" -> text \in {"", "bad"}
      [] op = "createStory" -> FALSE
      [] OTHER -> text = "bad"

\* the document a create controller builds from the request
NewDoc(r) ==
    LET file == ChosenFile(r.op, r.files)
    IN  [live  |-> TRUE,
         owner |-> r.caller,
         url   |-> r.up.secure_url,
         pid   |-> IF r.op = "createPost" THEN Null ELSE r.up.public_id,
         text  |-> r.text,
         mtype |-> CASE r.op = "createPost" /\ r.files[1].present -> "image"
                     [] r.op = "createPost" /\ r.files[2].present -> "video"
                     [] r.op = "createStory" /\ StartsWith(file.mime, STR_image) -> "image"
                     [] r.op = "createStory" -> "video"
                     [] OTHER -> ""]

\* variant: save() leaves a document alone whose image has changed since
\* the controller read it
UpdatedDoc_firstwins(r, cur) ==
    LET withText == IF r.text # "" THEN [cur EXCEPT !.text = r.text] ELSE cur
    IN  IF r.upOut # "ok" THEN withText
        ELSE IF r.op = "updateMyProfile" THEN [withText EXCEPT !.url = r.up.secure_url]
        ELSE IF cur.pid # r.old THEN cur
        ELSE [withText EXCEPT !.url = r.up.secure_url, !.pid = r.up.public_id]

\* variant: the profile update saves the text fields and leaves profilePic
\* as it was
UpdatedDoc_textonly(r, cur) ==
    LET withText == IF r.text # "" THEN [cur EXCEPT !.text = r.text] ELSE cur
    IN  IF r.upOut # "ok" THEN withText
        ELSE IF r.op = "updateMyProfile" THEN withText
        ELSE [withText EXCEPT !.url = r.up.secure_url, !.pid = r.up.public_id]

\* the document an update controller saves: save() writes the paths the
\* controller has modified over the stored document
UpdatedDoc(r, cur) ==
    LET withText == IF r.text # "" THEN [cur EXCEPT !.text = r.text] ELSE cur
    IN  IF r.upOut # "ok" THEN withText
        ELSE IF r.op = "updateMyProfile" THEN [withText EXCEPT !.url = r.up.secure_url]
        ELSE [withText EXCEPT !.url = r.up.secure_url, !.pid = r.up.public_id]

\* ------------------------------------------------------------------ inputs
MB == 1024 * 1024

File(mime, size) == [present |-> TRUE, mime |-> mime, size |-> size, buffer |-> TRUE]

\* the incoming files of the lifecycle runs: none, a 2MB image, a 2MB video
PendingUploads ==
    {NoFile, File(MIME_image_png, 2 * MB), File(MIME_video_mp4, 2 * MB)}

\* the incoming files of the gateway runs: every declared MIME type below
\* with every size below (each class limit, one byte over it, 2MB and 60MB)
Mimes == {MIME_image_png, MIME_image_jpeg, MIME_video_mp4,
          MIME_application_pdf, MIME_image_noslash, MIME_text_image}

FileSizes == {2 * MB, 5 * MB, 5 * MB + 1, 10 * MB, 10 * MB + 1,
              25 * MB, 25 * MB + 1, 50 * MB, 50 * MB + 1, 60 * MB}

GatewayUploads == {NoFile} \cup {File(m, z) : m \in Mimes, z \in FileSizes}

\* the files a request to the route of `op` may carry, drawn from `pending`:
\* one per declared field ('image' and 'video' for posts, the second drawn
\* from `second`), none where no multer is mounted
FilesOf(op, pending, second) ==
    IF op = "createPost" THEN {<<i, v>> : i \in pending, v \in second}
    ELSE IF ClassOf(op) = "none" THEN {<<NoFile>>}
    ELSE {<<f>> : f \in pending}

\* the text fields a request to the route of `op` may carry
TextsOf(op) ==
    CASE op \in DeleteOps -> {""}
      [] op = "createPost" -> {"", "t1"}
      [] op = "createStory" -> {"", "bad"}
      [] OTHER -> Texts

\* the documents a request to the route of `op` may name
TargetsOf(op, caller) ==
    IF op \in CreateOps THEN {0}
    ELSE IF op = "updateMyProfile" THEN {caller}
    ELSE DocIds

\* --------------------------------------------------------------- actions
\* A request arrives in a free slot: the route's middleware runs, then the
\* controller up to its first remote call or document write
Receive(s, op, caller, target, text, files) ==
    LET kind  == KindOf(op)
        doc   == IF target = 0 THEN BlankDoc ELSE db[kind][target]
        mcode == IF ClassOf(op) = "none" THEN "" ELSE Multer(ClassOf(op), files)
        plan  == IF mcode # "" THEN Reject(MulterError(mcode))
                 ELSE Begin(op, caller, doc, text, files)
        r     == [IdleReq EXCEPT
                     !.n = started + 1, !.op = op, !.caller = caller,
                     !.target = target, !.text = text, !.files = files,
                     !.existed = doc.live,
                     !.byOwner = doc.live /\ doc.owner = caller,
                     !.byAdmin = IsAdmin(caller)]
    IN  /\ req[s].pc \in {"idle", "done"}
        /\ op \in CreateOps => nextDoc[kind] <= MaxDocs
        /\ req' = [req EXCEPT ![s] =
                      IF plan.err # NoError THEN Fail(r, plan.err)
                      ELSE [r EXCEPT !.pc = plan.pc, !.old = plan.old,
                                     !.oldUrl = plan.oldUrl, !.rtype = plan.rtype]]
        /\ started' = started + 1
        /\ UNCHANGED <<db, nextDoc, remote, uploads, gone, calls, helper, auth, following, followers, follow, accounts, acct, issued>>

\* a request of the lifecycle runs
Route(s) ==
    /\ started < MaxRequests
    /\ \E op \in Ops, caller \in Users :
       \E text \in TextsOf(op), target \in TargetsOf(op, caller) :
       \E files \in FilesOf(op, PendingUploads, {NoFile, File(MIME_video_mp4, 2 * MB)}) :
          Receive(s, op, caller, target, text, files)

\* the one request of a gateway run, on the freshly started server
GatewayRoute(s) ==
    /\ started = 0
    /\ \E op \in Ops, caller \in Users :
       \E text \in {"t1"}, target \in TargetsOf(op, caller) :
       \E files \in FilesOf(op, GatewayUploads, PendingUploads \cup {File(MIME_video_mp4, 60 * MB)}) :
          Receive(s, op, caller, target, text, files)

\* uploadToCloudinary settles, and the controller tests its result
Upload(s) ==
    LET r == req[s] IN
    /\ r.pc = "upload"
    /\ \E out \in UploadOutcomes :
          LET file   == ChosenFile(r.op, r.files)
              folder == UploadFolder(r.op)
              res    == IF out = "ok" THEN UploadResult(file, folder, uploads + 1)
                        ELSE NoUploadResult
              r1     == [r EXCEPT !.upOut = out, !.up = res]
          IN  /\ remote' = IF out = "ok"
                           THEN remote \cup {[pid |-> res.public_id, rtype |-> res.rtype]}
                           ELSE remote
              /\ uploads' = IF out = "ok" THEN uploads + 1 ELSE uploads
              /\ calls' = calls \cup {[call |-> "upload", req |-> r.n,
                                       pid |-> res.public_id, folder |-> folder,
                                       rtype |-> "auto", ref |-> Null,
                                       sent |-> file]}
              /\ req' = [req EXCEPT ![s] =
                            IF out = "error" \/ ~UploadAccepted(r.op, res)
                            THEN Fail([r1 EXCEPT !.trace = Append(@, "upload_failed")],
                                      PlainError)
                            ELSE [r1 EXCEPT !.trace = Append(@, "upload"),
                                            !.pc = AfterUpload(r.op, r.old)]]
    /\ UNCHANGED <<db, nextDoc, gone, started, helper, auth, following, followers, follow, accounts, acct, issued>>

\* deleteFromCloudinary settles, and the controller carries on
Destroy(s) ==
    LET r == req[s] IN
    /\ r.pc = "destroy"
    /\ \E out \in (IF r.old = Null THEN {"none"} ELSE DestroyOutcomes) :
          LET held    == {a \in remote : a.pid = r.old}
              settled == deleteFromCloudinary(r.old, out)
              next    == AfterDestroy(r.op, settled)
              r1      == [r EXCEPT !.delOut = out, !.trace = Append(@, "destroy")]
          IN  /\ out = "ok" => held # {}
              /\ remote' = IF out = "ok" THEN remote \ held ELSE remote
              /\ gone' = IF out = "ok" THEN gone \cup {r.old} ELSE gone
              /\ calls' = IF r.old = Null THEN calls
                          ELSE calls \cup {[call |-> "destroy", req |-> r.n,
                                            pid |-> r.old, folder |-> Null,
                                            rtype |-> r.rtype, ref |-> r.oldUrl,
                                            sent |-> NoFile]}
              /\ req' = [req EXCEPT ![s] =
                            IF next = "fail" THEN Fail(r1, PlainError)
                            ELSE [r1 EXCEPT !.pc = next]]
    /\ UNCHANGED <<db, nextDoc, uploads, started, helper, auth, following, followers, follow, accounts, acct, issued>>

\* save() on the document the controller built or modified, then the
\* response.  A document deleted since the controller read it is not
\* written back: save() updates by _id and matches nothing; whether it then
\* throws depends on the mongoose release, so either answer may follow.
Save(s) ==
    LET r    == req[s]
        kind == KindOf(r.op)
    IN
    /\ r.pc = "save"
    /\ IF SaveInvalid(r.op, r.text)
       THEN /\ req' = [req EXCEPT ![s] =
                          IF AfterSaveFailed(r.op) = "done"
                          THEN Fail([r EXCEPT !.trace = Append(@, "save_failed")],
                                    ValidationError)
                          ELSE [r EXCEPT !.trace = Append(@, "save_failed"),
                                         !.pc = AfterSaveFailed(r.op)]]
            /\ UNCHANGED <<db, nextDoc>>
       ELSE IF r.op \in CreateOps
       THEN /\ db' = [db EXCEPT ![kind][nextDoc[kind]] = NewDoc(r)]
            /\ nextDoc' = [nextDoc EXCEPT ![kind] = @ + 1]
            /\ req' = [req EXCEPT ![s] =
                          Respond([r EXCEPT !.trace = Append(@, "save"),
                                            !.target = nextDoc[kind]], 201)]
       ELSE IF ~db[kind][r.target].live
       THEN /\ \E status \in {200, 500} :
                  req' = [req EXCEPT ![s] =
                             Respond([r EXCEPT !.trace = Append(@, "save_missing")], status)]
            /\ UNCHANGED <<db, nextDoc>>
       ELSE /\ db' = [db EXCEPT ![kind][r.target] = UpdatedDoc(r, @)]
            /\ req' = [req EXCEPT ![s] =
                          Respond([r EXCEPT !.trace = Append(@, "save")], 200)]
            /\ UNCHANGED nextDoc
    /\ UNCHANGED <<remote, uploads, gone, calls, started, helper, auth, following, followers, follow, accounts, acct, issued>>

\* deleteOne() / findByIdAndDelete(), then the response
Remove(s) ==
    LET r == req[s] IN
    /\ r.pc = "remove"
    /\ db' = [db EXCEPT ![KindOf(r.op)][r.target] = BlankDoc]
    /\ req' = [req EXCEPT ![s] = Respond([r EXCEPT !.trace = Append(@, "remove")], 200)]
    /\ UNCHANGED <<nextDoc, remote, uploads, gone, calls, started, helper, auth, following, followers, follow, accounts, acct, issued>>

\* the TTL index on Story.expiresAt: the document store drops an expired
\* story on its own
ExpireStory(i) ==
    /\ db["story"][i].live
    /\ \A s \in Slots : ~(req[s].pc \notin {"idle", "done"}
                          /\ KindOf(req[s].op) = "story" /\ req[s].target = i)
    /\ db' = [db EXCEPT !["story"][i] = BlankDoc]
    /\ UNCHANGED <<nextDoc, remote, uploads, gone, calls, req, started, helper, auth, following, followers, follow, accounts, acct, issued>>

Init ==
    /\ db = [k \in Kinds |-> [i \in Ids(k) |-> IF k = "user" THEN UserDoc(i) ELSE BlankDoc]]
    /\ nextDoc = [k \in Kinds \ {"user"} |-> 1]
    /\ remote = {}
    /\ uploads = 0
    /\ gone = {}
    /\ calls = {}
    /\ req = [s \in Slots |-> IdleReq]
    /\ started = 0
    /\ helper = IdleHelper
    /\ auth = IdleAuth
    /\ NoAccountWork

Next ==
    \/ \E s \in Slots : Route(s)
    \/ \E s \in Slots : Upload(s)
    \/ \E s \in Slots : Destroy(s)
    \/ \E s \in Slots : Save(s)
    \/ \E s \in Slots : Remove(s)
    \/ \E i \in DocIds : ExpireStory(i)

Spec == Init /\ [][Next]_vars

\* the gateway runs: one request with any of the gateway's incoming files
GatewayNext ==
    \/ \E s \in Slots : GatewayRoute(s)
    \/ \E s \in Slots : Upload(s)
    \/ \E s \in Slots : Save(s)

GatewaySpec == Init /\ [][GatewayNext]_vars


\* --------------------------------------------------------- helper inputs
\* the 'upload' path segment of a delivery URL
STR_upload_path ==
    <<"/", "u", "p", "l", "o", "a", "d", "/">>

\* delivery URL prefixes: the example of getPublicIdFromUrl, one whose cloud
\* name is a 'v' followed by a digit, one on another host
PREFIX_demo_image ==
    <<"h", "t", "t", "p", "s", ":", "/", "/", "r", "e", "s", ".", "c", "l", "o", "u", "d", "i", "n", "a", "r", "y", ".", "c", "o", "m", "/", "d", "e", "m", "o", "/", "i", "m", "a", "g", "e">>

PREFIX_v2_video ==
    <<"h", "t", "t", "p", "s", ":", "/", "/", "r", "e", "s", ".", "c", "l", "o", "u", "d", "i", "n", "a", "r", "y", ".", "c", "o", "m", "/", "v", "2", "/", "v", "i", "d", "e", "o">>

PREFIX_other_host ==
    <<"h", "t", "t", "p", "s", ":", "/", "/", "c", "d", "n", ".", "e", "x", "a", "m", "p", "l", "e", ".", "o", "r", "g", "/", "m", "e", "d", "i", "a">>

\* version segments
VERSION_v1 ==
    <<"v", "1">>

VERSION_v123 ==
    <<"v", "1", "2", "3">>

\* folder segments, the second with a dot in a folder name
FOLDER_f ==
    <<"f">>

FOLDER_f_g_h ==
    <<"f", ".", "g", "/", "h">>

\* file name without extension
NAME_n ==
    <<"n">>

\* URLs outside the shape: no 'upload' segment, 'uploads' for 'upload', no
\* version segment, nothing after the version segment
URL_no_upload ==
    <<"h", "t", "t", "p", "s", ":", "/", "/", "r", "e", "s", ".", "c", "l", "o", "u", "d", "i", "n", "a", "r", "y", ".", "c", "o", "m", "/", "d", "e", "m", "o", "/", "i", "m", "a", "g", "e", "/", "v", "1", "/", "f", "/", "n", ".", "j", "p", "g">>

URL_uploads ==
    <<"h", "t", "t", "p", "s", ":", "/", "/", "r", "e", "s", ".", "c", "l", "o", "u", "d", "i", "n", "a", "r", "y", ".", "c", "o", "m", "/", "d", "e", "m", "o", "/", "u", "p", "l", "o", "a", "d", "s", "/", "v", "1", "/", "f", "/", "n", ".", "j", "p", "g">>

URL_no_version ==
    <<"h", "t", "t", "p", "s", ":", "/", "/", "r", "e", "s", ".", "c", "l", "o", "u", "d", "i", "n", "a", "r", "y", ".", "c", "o", "m", "/", "d", "e", "m", "o", "/", "i", "m", "a", "g", "e", "/", "u", "p", "l", "o", "a", "d", "/", "f", "/", "n", ".", "j", "p", "g">>

URL_version_last ==
    <<"h", "t", "t", "p", "s", ":", "/", "/", "r", "e", "s", ".", "c", "l", "o", "u", "d", "i", "n", "a", "r", "y", ".", "c", "o", "m", "/", "d", "e", "m", "o", "/", "i", "m", "a", "g", "e", "/", "u", "p", "l", "o", "a", "d", "/", "v", "1">>

HelperPrefixes == {PREFIX_demo_image, PREFIX_v2_video, PREFIX_other_host}
HelperVersions == {VERSION_v1, VERSION_v123}
HelperFolders == {FOLDER_f, FOLDER_f_g_h}
HelperExts == {EXT_jpg, EXT_mp4}

\* <prefix>/upload/v<digits>/<folder segments>/<name>.<ext>
ShapedUrl(prefix, version, folder, name, ext) ==
    prefix \o STR_upload_path \o version \o <<"/">> \o folder \o <<"/">> \o name \o ext

OtherUrls ==
    {Null, DEFAULT_AVATAR_PATH, URL_no_upload, URL_uploads, URL_no_version,
     URL_version_last}

\* the URLs handed to the helper: those of the shape, each with the public
\* id it was built around, and the others
HelperInputs ==
    {[url |-> ShapedUrl(p, v, f, NAME_n, e), shaped |-> TRUE,
      id |-> f \o <<"/">> \o NAME_n] :
        p \in HelperPrefixes, v \in HelperVersions, f \in HelperFolders, e \in HelperExts}
    \cup {[url |-> u, shaped |-> FALSE, id |-> Null] : u \in OtherUrls}

\* the folders the controllers upload into
UploadFolders == {UploadFolder(op) : op \in CreateOps \cup UpdateOps}

\* ----------------------------------------------------------- helper runs
\* a file object that has no buffer, as a caller other than multer can pass
Unbuffered(file) == [file EXCEPT !.buffer = FALSE]

\* the files uploadToCloudinary is called with: none, files from multer, a
\* file without a buffer
HelperFiles == PendingUploads \cup {Unbuffered(File(MIME_image_png, 2 * MB))}

\* variant: the helper sends the file whether or not it has a buffer
uploadToCloudinary_nobuffertest(file, out) ==
    IF ~file.present
    THEN [settled |-> "resolved", null |-> TRUE, call |-> FALSE, error |-> ""]
    ELSE IF out = "error"
    THEN [settled |-> "rejected", null |-> FALSE, call |-> TRUE, error |-> "upload failed"]
    ELSE [settled |-> "resolved", null |-> FALSE, call |-> TRUE, error |-> ""]

\* uploadToCloudinary(file, folder) when the remote store would answer
\* `out`: how the promise settles, whether it resolves with null, whether
\* cloudinary.uploader.upload is called, and the error it rejects with
uploadToCloudinary(file, out) ==
    IF ~file.present
    THEN [settled |-> "resolved", null |-> TRUE, call |-> FALSE, error |-> ""]
    ELSE IF ~file.buffer
    THEN [settled |-> "rejected", null |-> FALSE, call |-> FALSE,
          error |-> "process buffer"]
    ELSE IF out = "error"
    THEN [settled |-> "rejected", null |-> FALSE, call |-> TRUE, error |-> "upload failed"]
    ELSE [settled |-> "resolved", null |-> FALSE, call |-> TRUE, error |-> ""]

\* uploadToCloudinary(file, folder) called directly
HelperUpload ==
    /\ helper.n < MaxHelperCalls
    /\ \E file \in HelperFiles, folder \in UploadFolders, out \in UploadOutcomes :
          LET u   == uploadToCloudinary(file, out)
              res == IF u.call /\ out = "ok" THEN UploadResult(file, folder, uploads + 1)
                     ELSE NoUploadResult
              h   == [helper EXCEPT !.up = res, !.n = @ + 1, !.upFile = file,
                                    !.upSettled = u.settled, !.upNull = u.null,
                                    !.upError = u.error,
                                    !.upN = helper.n + 1]
          IN  /\ u.call => Cardinality({c \in calls : c.call = "upload"}) < MaxHelperUploads
              /\ remote' = IF u.call /\ out = "ok"
                           THEN remote \cup {[pid |-> res.public_id, rtype |-> res.rtype]}
                           ELSE remote
              /\ uploads' = IF u.call /\ out = "ok" THEN uploads + 1 ELSE uploads
              /\ calls' = IF u.call
                          THEN calls \cup {[call |-> "upload", req |-> helper.n + 1,
                                            pid |-> res.public_id, folder |-> folder,
                                            rtype |-> "auto", ref |-> Null,
                                            sent |-> file]}
                          ELSE calls
              /\ helper' = IF u.call /\ out = "ok"
                           THEN [h EXCEPT !.url = res.secure_url, !.shaped = FALSE,
                                          !.id = Null, !.derived = FALSE,
                                          !.handle = Null, !.deleted = Null,
                                          !.settled = "", !.out = ""]
                           ELSE h
    /\ UNCHANGED <<db, nextDoc, gone, req, started, auth, following, followers, follow, accounts, acct, issued>>

\* getPublicIdFromUrl(url) called on the URL at hand
HelperDerive ==
    /\ helper.n < MaxHelperCalls
    /\ LET publicId == getPublicIdFromUrl(helper.url)
       IN  helper' = [helper EXCEPT !.handle = publicId, !.derived = TRUE,
                                    !.log = @ \cup {[url |-> helper.url, handle |-> publicId]},
                                    !.n = @ + 1]
    /\ UNCHANGED <<db, nextDoc, remote, uploads, gone, calls, req, started, auth, following, followers, follow, accounts, acct, issued>>

\* deleteFromCloudinary(publicId) called on the handle derived last
HelperDelete ==
    /\ helper.n < MaxHelperCalls
    /\ helper.derived
    /\ \E out \in (IF helper.handle = Null THEN {"none"} ELSE DestroyOutcomes) :
          LET held == {a \in remote : a.pid = helper.handle}
          IN  /\ out = "ok" => held # {}
              /\ remote' = IF out = "ok" THEN remote \ held ELSE remote
              /\ gone' = IF out = "ok" THEN gone \cup {helper.handle} ELSE gone
              /\ calls' = IF helper.handle = Null THEN calls
                          ELSE calls \cup {[call |-> "destroy", req |-> helper.n + 1,
                                            pid |-> helper.handle, folder |-> Null,
                                            rtype |-> "auto", ref |-> helper.url,
                                            sent |-> NoFile]}
              /\ helper' = [helper EXCEPT
                               !.settled = deleteFromCloudinary(helper.handle, out),
                               !.out = out, !.deleted = helper.handle, !.n = @ + 1]
    /\ UNCHANGED <<db, nextDoc, uploads, req, started, auth, following, followers, follow, accounts, acct, issued>>

\* the helper runs start on the fresh server with one URL at hand
HelperInit ==
    /\ db = [k \in Kinds |-> [i \in Ids(k) |-> IF k = "user" THEN UserDoc(i) ELSE BlankDoc]]
    /\ nextDoc = [k \in Kinds \ {"user"} |-> 1]
    /\ remote = {}
    /\ uploads = 0
    /\ gone = {}
    /\ calls = {}
    /\ req = [s \in Slots |-> IdleReq]
    /\ started = 0
    /\ \E input \in HelperInputs :
          helper = [IdleHelper EXCEPT !.url = input.url, !.shaped = input.shaped,
                                      !.id = input.id]
    /\ auth = IdleAuth
    /\ NoAccountWork

HelperNext ==
    \/ HelperUpload
    \/ HelperDerive
    \/ HelperDelete

HelperSpec == HelperInit /\ [][HelperNext]_vars

\* ------------------------------------------------- earlier-stored documents
\* a media path served by the backend itself, as stored before media went
\* to the remote store
LOCAL_MEDIA_PATH ==
    <<"/", "u", "p", "l", "o", "a", "d", "s", "/", "o", "l", "d", ".", "j", "p", "g">>

\* the folder of each kind of document
FolderOf(kind) ==
    CASE kind = "post" -> FOLDER_posts
      [] kind = "story" -> FOLDER_stories
      [] kind = "event" -> FOLDER_events
      [] kind = "business" -> FOLDER_businesses

\* the asset of an earlier-stored document of `kind`
StoredAsset(kind) == UploadResult(File(MIME_image_png, 2 * MB), FolderOf(kind), 1)

\* How a document stored earlier may hold its media: URL and public id
\* ("stored"; not for posts, whose schema has no public id path), the URL
\* only ("urlonly"), a local path ("local"), a URL of the remote host that
\* yields no public id ("malformed").  The delete controllers provide for
\* documents without a stored public id.
StoredShapes(kind) ==
    IF kind = "post" THEN {"urlonly", "local", "malformed"}
    ELSE {"stored", "urlonly", "local", "malformed"}

StoredDoc(kind, shape) ==
    [live  |-> TRUE,
     owner |-> NumUsers,
     url   |-> CASE shape \in {"stored", "urlonly"} -> StoredAsset(kind).secure_url
                 [] shape = "local" -> LOCAL_MEDIA_PATH
                 [] shape = "malformed" -> URL_no_version,
     pid   |-> IF shape = "stored" THEN StoredAsset(kind).public_id ELSE Null,
     text  |-> "t0",
     mtype |-> IF kind \in {"post", "story"} THEN "image" ELSE ""]

\* the server with one earlier-stored document, its asset held remotely
StoredInit ==
    /\ \E kind \in Kinds \ {"user"} : \E shape \in StoredShapes(kind) :
          /\ db = [k \in Kinds |-> [i \in Ids(k) |->
                      IF k = "user" THEN UserDoc(i)
                      ELSE IF k = kind /\ i = 1 THEN StoredDoc(kind, shape)
                      ELSE BlankDoc]]
          /\ nextDoc = [k \in Kinds \ {"user"} |-> IF k = kind THEN 2 ELSE 1]
          /\ remote = IF shape \in {"stored", "urlonly"}
                      THEN {[pid |-> StoredAsset(kind).public_id, rtype |-> "image"]}
                      ELSE {}
          /\ uploads = IF shape \in {"stored", "urlonly"} THEN 1 ELSE 0
    /\ gone = {}
    /\ calls = {}
    /\ req = [s \in Slots |-> IdleReq]
    /\ started = 0
    /\ helper = IdleHelper
    /\ auth = IdleAuth
    /\ NoAccountWork

\* a request of a run on earlier-stored documents: an update or a delete
StoredRoute(s) ==
    /\ started < MaxStoredRequests
    /\ \E op \in UpdateOps \cup DeleteOps, caller \in Users :
       \E text \in TextsOf(op), target \in TargetsOf(op, caller) :
       \E files \in FilesOf(op, PendingUploads, {NoFile}) :
          Receive(s, op, caller, target, text, files)

StoredNext ==
    \/ \E s \in Slots : StoredRoute(s)
    \/ \E s \in Slots : Upload(s)
    \/ \E s \in Slots : Destroy(s)
    \/ \E s \in Slots : Save(s)
    \/ \E s \in Slots : Remove(s)

StoredSpec == StoredInit /\ [][StoredNext]_vars

\* --------------------------------------------------------- concurrent runs
\* requests the server handles at the same time: each `await` of a
\* controller yields to the other requests
RaceSlots == 1..MaxConcurrent

\* the operations of a concurrent run: the updates and deletes of events
\* and businesses, and the profile update
RaceOps == {"updateEvent", "updateBusiness", "deleteEvent", "deleteBusiness",
            "updateMyProfile"}

\* the server with one earlier-created event or business, its image held
\* remotely, and no request yet
RaceInit ==
    /\ \E kind \in {"event", "business"} :
          /\ db = [k \in Kinds |-> [i \in Ids(k) |->
                      IF k = "user" THEN UserDoc(i)
                      ELSE IF k = kind /\ i = 1 THEN StoredDoc(kind, "stored")
                      ELSE BlankDoc]]
          /\ nextDoc = [k \in Kinds \ {"user"} |-> IF k = kind THEN 2 ELSE 1]
          /\ remote = {[pid |-> StoredAsset(kind).public_id, rtype |-> "image"]}
    /\ uploads = 1
    /\ gone = {}
    /\ calls = {}
    /\ req = [s \in RaceSlots |-> IdleReq]
    /\ started = 0
    /\ helper = IdleHelper
    /\ auth = IdleAuth
    /\ NoAccountWork

\* variant: the server takes a request only while it handles no other
RaceRoute_serial(s) ==
    /\ started < MaxRaceRequests
    /\ \A t \in RaceSlots : req[t].pc \in {"idle", "done"}
    /\ \E op \in RaceOps, caller \in Users :
       \E text \in TextsOf(op) \ {"t1"}, target \in TargetsOf(op, caller) :
       \E files \in FilesOf(op, {NoFile, File(MIME_image_png, 2 * MB)}, {NoFile}) :
          Receive(s, op, caller, target, text, files)

\* a request arrives while others may be under way
RaceRoute(s) ==
    /\ started < MaxRaceRequests
    /\ \E op \in RaceOps, caller \in Users :
       \E text \in TextsOf(op) \ {"t1"}, target \in TargetsOf(op, caller) :
       \E files \in FilesOf(op, {NoFile, File(MIME_image_png, 2 * MB)}, {NoFile}) :
          Receive(s, op, caller, target, text, files)

RaceNext ==
    \/ \E s \in RaceSlots : RaceRoute(s)
    \/ \E s \in RaceSlots : Upload(s)
    \/ \E s \in RaceSlots : Destroy(s)
    \/ \E s \in RaceSlots : Save(s)
    \/ \E s \in RaceSlots : Remove(s)

RaceSpec == RaceInit /\ [][RaceNext]_vars

\* ---------------------------------------------------------- media lifecycle
\* the steps a request has taken, as a set
Steps(r) == {r.trace[i] : i \in 1..Len(r.trace)}

\* step a occurs in the trace before some occurrence of step b
Precedes(trace, a, b) ==
    \E i, j \in 1..Len(trace) : i < j /\ trace[i] = a /\ trace[j] = b

\* the remote asset a document references: its stored public id, else the
\* one its media URL yields
AssetOf(doc) == IF doc.pid # Null THEN doc.pid ELSE getPublicIdFromUrl(doc.url)

\* no request on document i of kind k is being handled
Quiet(k, i) ==
    \A s \in Slots :
        req[s].pc \in {"idle", "done"} \/ KindOf(req[s].op) # k \/ req[s].target # i

\* the caller may delete the document: its owner, or an admin where the
\* controller admits admins
MayDelete(r) == r.byOwner \/ (r.byAdmin /\ r.op # "deleteStory")

\* C1: in a replace-media request the remote delete of the old asset is
\* invoked only after the new upload has succeeded and the updated entity
\* has been saved.
C1_DestroyOnlyAfterSave ==
    \A s \in Slots :
        LET r == req[s] IN
        (r.op \in UpdateOps /\ "destroy" \in Steps(r)) =>
            /\ Precedes(r.trace, "upload", "destroy")
            /\ Precedes(r.trace, "save", "destroy")

\* C2: no persisted entity references an asset on which a remote delete has
\* succeeded, whatever requests ran before and also when a save failed;
\* stated for the entities no request is working on.
C2_NoReferenceToDestroyedAsset ==
    \A k \in Kinds : \A i \in Ids(k) :
        (db[k][i].live /\ Quiet(k, i)) => AssetOf(db[k][i]) \notin gone

\* C3: in a create-with-media request the entity is saved only after the
\* upload has succeeded; when the upload fails or returns no URL the request
\* ends with the error and no entity is written, and every media URL a
\* created entity holds is that of an asset the remote store has stored.
C3_SavedOnlyAfterUpload ==
    /\ \A s \in Slots :
          LET r == req[s] IN
          r.op \in CreateOps =>
             /\ r.upOut \in {"error", "nourl"} =>
                   /\ r.pc = "done"
                   /\ r.status = 500
                   /\ Steps(r) = {"upload_failed"}
             /\ (ChosenFile(r.op, r.files).present
                   /\ (r.pc = "save" \/ Steps(r) \cap {"save", "save_failed"} # {})) =>
                   /\ r.upOut = "ok"
                   /\ r.trace[1] = "upload"
    /\ \A k \in Kinds \ {"user"} : \A i \in DocIds :
          (db[k][i].live /\ db[k][i].url # Null) =>
             \E c \in calls :
                /\ c.call = "upload"
                /\ c.pid # Null
                /\ c.pid = getPublicIdFromUrl(db[k][i].url)

\* a create request whose upload threw: it ended with a 500 and its kind
\* has no document
C3_Witness ==
    \E s \in Slots :
        LET r == req[s] IN
        /\ r.op \in CreateOps
        /\ r.upOut = "error"
        /\ r.pc = "done"
        /\ r.status = 500
        /\ \A i \in DocIds : ~db[KindOf(r.op)][i].live

\* C4: a delete request by a caller who may delete, on an entity that
\* exists, removes the record and answers success, whether the remote delete
\* answers ok, not found, another result, or throws.
C4_DeleteSucceedsWhateverDestroyAnswers ==
    \A s \in Slots :
        LET r == req[s] IN
        (r.op \in DeleteOps /\ r.pc = "done" /\ r.existed /\ MayDelete(r)) =>
            /\ r.status = 200
            /\ ~db[KindOf(r.op)][r.target].live
            /\ r.delOut \in DestroyOutcomes \cup {""}

\* a delete request whose remote delete threw, answered with 200
C4_Witness ==
    \E s \in Slots :
        LET r == req[s] IN
        /\ r.op \in DeleteOps
        /\ r.pc = "done"
        /\ r.delOut = "error"
        /\ r.status = 200
        /\ ~db[KindOf(r.op)][r.target].live

\* C5: the response and the persisted entity of a request that invoked the
\* remote delete are determined by the request and the state it started
\* from, not by the outcome of the remote delete: two runs that differ only
\* in that outcome end alike.
C5_DestroyOutcomeNotObservable ==
    \A s \in Slots :
        LET r   == req[s]
            doc == db[KindOf(r.op)][r.target]
        IN  (r.pc = "done" /\ "destroy" \in Steps(r)) =>
               /\ r.code = ""
               /\ r.op \in DeleteOps => (r.status = 200 /\ ~doc.live)
               /\ (r.op \in UpdateOps /\ r.text = "bad") =>
                     (r.status = 400 /\ doc.url = r.oldUrl)
               /\ (r.op \in UpdateOps /\ r.text # "bad") =>
                     (r.status = 200 /\ doc.url = r.up.secure_url)

\* a replace-media request whose remote delete threw, answered with 200
\* and saved with the new URL
C5_Witness ==
    \E s \in Slots :
        LET r == req[s] IN
        /\ r.op \in UpdateOps
        /\ r.pc = "done"
        /\ r.delOut = "error"
        /\ r.status = 200
        /\ db[KindOf(r.op)][r.target].url = r.up.secure_url

\* C6: whenever an entity that references a remote asset is removed, or its
\* media is replaced, a remote delete of that asset has been invoked, on
\* every path that removes or replaces (request handlers and the expiry of
\* stories alike).
C6_RemovalInvokesDestroy ==
    [][\A k \in Kinds : \A i \in Ids(k) :
          LET h == AssetOf(db[k][i])
          IN  (/\ db[k][i].live
               /\ h # Null
               /\ (~db'[k][i].live \/ AssetOf(db'[k][i]) # h))
                 => \E c \in calls' : c.call = "destroy" /\ c.pid = h]_vars

\* C7: the remote delete is never invoked for the default placeholder
\* avatar: no destroy call is made for that URL, and a profile update that
\* starts from the default avatar makes no destroy call at all.
C7_DefaultAvatarNeverDestroyed ==
    /\ \A c \in calls :
          c.call = "destroy" => (c.ref # DEFAULT_AVATAR_PATH /\ c.pid # Null)
    /\ \A s \in Slots :
          LET r == req[s] IN
          (r.op = "updateMyProfile" /\ r.oldUrl = DEFAULT_AVATAR_PATH) =>
             /\ "destroy" \notin Steps(r)
             /\ ~\E c \in calls : c.call = "destroy" /\ c.req = r.n

\* a profile update that replaced the default avatar with an uploaded one
C7_Witness ==
    \E s \in Slots :
        LET r == req[s] IN
        /\ r.op = "updateMyProfile"
        /\ r.oldUrl = DEFAULT_AVATAR_PATH
        /\ r.upOut = "ok"
        /\ r.pc = "done"
        /\ r.status = 200
        /\ db["user"][r.caller].url = r.up.secure_url


\* ----------------------------------------------------------- upload gateway
\* the size limit stated for the entity type of each upload route
StatedMaxBytes(op) ==
    CASE KindOf(op) = "user" -> 5 * MB
      [] KindOf(op) = "post" -> 50 * MB
      [] KindOf(op) = "story" -> 25 * MB
      [] KindOf(op) = "event" -> 10 * MB
      [] KindOf(op) = "business" -> 10 * MB

\* the declared-type prefixes stated for the entity type of each upload route
StatedPrefixes(op) ==
    IF KindOf(op) \in {"post", "story"} THEN {STR_image_slash, STR_video_slash}
    ELSE {STR_image_slash}

\* the request came in on a route that has an upload middleware
Gated(r) == r.op \in Ops /\ ClassOf(r.op) # "none"

WrongType(op, file) ==
    file.present /\ \A p \in StatedPrefixes(op) : ~StartsWith(file.mime, p)

TooLarge(op, file) == file.present /\ file.size > StatedMaxBytes(op)

\* the error kinds the files of request r call for
StatedKinds(r) ==
    {IF WrongType(r.op, r.files[i]) THEN "LIMIT_UNEXPECTED_FILE" ELSE "LIMIT_FILE_SIZE" :
        i \in {j \in 1..Len(r.files) :
                  WrongType(r.op, r.files[j]) \/ TooLarge(r.op, r.files[j])}}

\* the request made no call to the remote store
NoRemoteCall(r) == ~\E c \in calls : c.req = r.n

\* C8: an uploaded file larger than the limit of its entity type (profile
\* 5MB, post 50MB, story 25MB, event 10MB, business 10MB) is rejected and
\* the remote upload is not called for that request.
C8_OversizeNeverUploaded ==
    \A s \in Slots :
        LET r == req[s] IN
        (Gated(r) /\ \E i \in 1..Len(r.files) : TooLarge(r.op, r.files[i])) =>
            /\ r.pc = "done"
            /\ r.status = 400
            /\ r.upOut = ""
            /\ "upload" \notin Steps(r)
            /\ NoRemoteCall(r)

\* a post request with a 60MB video, rejected as too large
C8_Witness ==
    \E s \in Slots :
        LET r == req[s] IN
        /\ r.op = "createPost"
        /\ r.files = <<NoFile, File(MIME_video_mp4, 60 * MB)>>
        /\ r.pc = "done"
        /\ r.code = "LIMIT_FILE_SIZE"

\* C9: a file is accepted only if its declared type starts with 'image/'
\* (profile, event, business) or with 'image/' or 'video/' (post, story);
\* a file of any other declared type is rejected before the controller runs.
C9_OnlyStatedTypesAccepted ==
    \A s \in Slots :
        LET r == req[s] IN
        (Gated(r) /\ \E i \in 1..Len(r.files) : WrongType(r.op, r.files[i])) =>
            /\ r.pc = "done"
            /\ r.code \in {"LIMIT_UNEXPECTED_FILE", "LIMIT_FILE_SIZE"}
            /\ WrongType(r.op, ChosenFile(r.op, r.files)) => r.code = "LIMIT_UNEXPECTED_FILE"
            /\ r.trace = <<>>
            /\ NoRemoteCall(r)

\* a profile update with a video, rejected for its type
C9_Witness ==
    \E s \in Slots :
        LET r == req[s] IN
        /\ r.op = "updateMyProfile"
        /\ r.files = <<File(MIME_video_mp4, 2 * MB)>>
        /\ r.pc = "done"
        /\ r.code = "LIMIT_UNEXPECTED_FILE"
        /\ r.trace = <<>>

\* C10: when the gateway rejects a request, the error tells a wrong declared
\* type from an excess of size, the response is a 400, and nothing has been
\* uploaded or written.
C10_RejectionKindAndNoPartialState ==
    [][\A s \in Slots :
          LET r == req'[s] IN
          (r.n # req[s].n /\ Gated(r) /\ StatedKinds(r) # {}) =>
             /\ r.pc = "done"
             /\ r.status = 400
             /\ r.code \in StatedKinds(r)
             /\ r.trace = <<>>
             /\ UNCHANGED <<db, nextDoc, remote, uploads, gone, calls>>]_vars

\* a story request with an image one byte over 25MB, answered 400 with
\* the size kind, the stores as they were at the start
C10_Witness ==
    \E s \in Slots :
        LET r == req[s] IN
        /\ r.op = "createStory"
        /\ r.files = <<File(MIME_image_png, 25 * MB + 1)>>
        /\ r.status = 400
        /\ r.code = "LIMIT_FILE_SIZE"
        /\ calls = {}
        /\ remote = {}
        /\ \A i \in DocIds : ~db["story"][i].live


\* --------------------------------------------------------- Cloudinary helper
\* the path segments of a URL
Segments(url) == {Split(url, "/")[i] : i \in 1..Len(Split(url, "/"))}

\* C11: deleteFromCloudinary is idempotent: deleting a handle the remote
\* store does not hold (never uploaded, or deleted before) resolves, and a
\* null or empty handle resolves without any call to the remote store.
C11_DeleteIdempotent ==
    /\ helper.settled # "" =>
          /\ helper.out = "not found" => helper.settled = "resolved"
          /\ helper.deleted = Null =>
                (helper.settled = "resolved" /\ helper.out = "none")
    /\ \A c \in calls : c.call = "destroy" => c.pid # Null

\* a second delete of a handle whose first delete succeeded: the remote
\* store answers not found and the call resolves
C11_Witness ==
    /\ helper.settled = "resolved"
    /\ helper.out = "not found"
    /\ helper.deleted \in gone
    /\ ~\E a \in remote : a.pid = helper.deleted

\* C12: every remote deletion outcome other than 'ok' and 'not found' is
\* reported by deleteFromCloudinary as a rejection, whether the remote store
\* throws or returns a non-ok result.
C12_FailuresRejected ==
    (helper.settled # "" /\ helper.out \notin {"ok", "not found", "none"}) =>
        helper.settled = "rejected"

\* C13: for every URL <prefix>/upload/v<digits>/<folder segments>/<name>.<ext>
\* getPublicIdFromUrl returns '<folder segments>/<name>', whatever precedes
\* 'upload' and whether or not folder names contain dots; stated for the
\* URLs of the Cloudinary host.
C13_ShapedUrlYieldsId ==
    (helper.shaped /\ helper.derived /\ Includes(helper.url, STR_cloudinary_com)) =>
        helper.handle = helper.id

\* C14: getPublicIdFromUrl is a function of its argument alone (the same URL
\* yields the same result whatever the stores hold), and it returns null for
\* a URL without the path segment 'upload', for a null or empty URL, and for
\* locally served paths such as the default placeholder.
C14_DeriveIsPureAndNullOffShape ==
    /\ \A e1, e2 \in helper.log : e1.url = e2.url => e1.handle = e2.handle
    /\ \A e \in helper.log :
          (\/ e.url = Null
           \/ e.url = DEFAULT_AVATAR_PATH
           \/ STR_upload \notin Segments(e.url)) => e.handle = Null
    /\ helper.derived => [url |-> helper.url, handle |-> helper.handle] \in helper.log

\* a cloudinary URL with a version segment but no 'upload' segment, derived
\* to null after the remote store has taken an upload
C14_Witness ==
    /\ [url |-> URL_no_upload, handle |-> Null] \in helper.log
    /\ remote # {}

\* C15: for the URL of every successful uploadToCloudinary, getPublicIdFromUrl
\* returns the public id of that upload, not null, and deleteFromCloudinary
\* on it addresses that asset: it resolves unless the remote call throws, and
\* once the remote store answers ok the asset is no longer held.
C15_UploadDeriveDeleteRoundTrip ==
    /\ (helper.derived /\ helper.up.secure_url # Null /\ helper.url = helper.up.secure_url) =>
          /\ helper.handle # Null
          /\ helper.handle = helper.up.public_id
    /\ (helper.settled # "" /\ helper.up.public_id # Null
          /\ helper.url = helper.up.secure_url) =>
          /\ helper.deleted = helper.up.public_id
          /\ helper.out # "error" => helper.settled = "resolved"
          /\ helper.out = "ok" =>
                (helper.deleted \in gone /\ ~\E a \in remote : a.pid = helper.deleted)

\* a video uploaded into the stories folder, its handle derived from the
\* URL, deleted with the remote store answering ok
C15_Witness ==
    /\ helper.up.rtype = "video"
    /\ helper.up.public_id = FOLDER_stories \o <<"/">> \o AssetName(1)
    /\ helper.handle = helper.up.public_id
    /\ helper.settled = "resolved"
    /\ helper.out = "ok"
    /\ remote = {}


\* ------------------------------------------------------- delete controllers
\* C16: in every delete request, for posts, stories, events and businesses
\* alike, the handle of the remote delete is the stored handle when the
\* entity has one and otherwise the one derived from its stored URL, and the
\* remote delete is attempted before the record is deleted.
C16_DeleteByStoredElseDerivedHandle ==
    [][\A s \in Slots :
          LET r == req'[s] IN
          /\ (r.n # req[s].n /\ r.op \in DeleteOps /\ r.existed /\ MayDelete(r)) =>
                LET h == AssetOf(db[KindOf(r.op)][r.target])
                IN  /\ r.old = h
                    /\ r.pc = IF h # Null THEN "destroy" ELSE "remove"
          /\ (r.op \in DeleteOps /\ "remove" \in Steps(r) /\ r.old # Null) =>
                Precedes(r.trace, "destroy", "remove")]_vars

CallsOf(r, call) == {c \in calls : c.call = call /\ c.req = r.n}

\* C17: after a successful replacement of a business's or an event's image
\* from refA to refB, exactly one remote delete call has been made with
\* refA's handle, none with refB's handle, and the persisted entity
\* references refB.
C17_ReplaceDeletesOldOnce ==
    \A s \in Slots :
        LET r   == req[s]
            doc == db[KindOf(r.op)][r.target]
        IN  (/\ r.op \in {"updateEvent", "updateBusiness"}
             /\ r.pc = "done"
             /\ r.status = 200
             /\ r.upOut = "ok"
             /\ r.old # Null) =>
               /\ Cardinality({c \in calls : c.call = "destroy" /\ c.pid = r.old}) = 1
               /\ ~\E c \in calls : c.call = "destroy" /\ c.pid = r.up.public_id
               /\ doc.url = r.up.secure_url
               /\ doc.pid = r.up.public_id
               /\ doc.url # r.oldUrl

\* C19: in a create-with-media request whose save fails after the upload
\* succeeded, no remote delete of the uploaded asset and no second upload
\* is issued; the error is reported, the asset stays on the remote store
\* and no entity is stored.
C19_FailedCreateLeavesOrphan ==
    \A s \in Slots :
        LET r == req[s] IN
        (r.op \in CreateOps /\ r.upOut = "ok" /\ "save_failed" \in Steps(r)) =>
            /\ r.pc = "done"
            /\ r.status = 400
            /\ r.trace = <<"upload", "save_failed">>
            /\ Cardinality(CallsOf(r, "upload")) = 1
            /\ CallsOf(r, "destroy") = {}
            /\ \E a \in remote : a.pid = r.up.public_id
            /\ r.up.public_id \notin gone
            /\ \A i \in DocIds : db[KindOf(r.op)][i].url # r.up.secure_url

\* an event request with an image and an over-long title: uploaded, then
\* refused by save()
C19_Witness ==
    \E s \in Slots :
        LET r == req[s] IN
        /\ r.op = "createEvent"
        /\ r.text = "bad"
        /\ r.upOut = "ok"
        /\ r.pc = "done"
        /\ r.status = 400
        /\ \E a \in remote : a.pid = r.up.public_id
        /\ \A i \in DocIds : ~db["event"][i].live

\* C20: in a replace-media request whose upload fails, no remote delete of
\* the old asset is issued, the persisted entity is as it was when the
\* request came in (media reference and text fields), and the error is
\* returned.
C20_FailedUploadChangesNothing ==
    [][\A s \in Slots :
          LET r == req'[s] IN
          /\ (r.op \in UpdateOps /\ r.n # req[s].n) => db' = db
          /\ (r.op \in UpdateOps /\ req[s].pc = "upload"
                /\ r.upOut \in {"error", "nourl"}) =>
                /\ r.pc = "done"
                /\ r.status = 500
                /\ r.trace = <<"upload_failed">>
                /\ db' = db
                /\ gone' = gone
                /\ ~\E c \in calls' : c.call = "destroy" /\ c.req = r.n]_vars

\* a profile update with new text and a picture whose upload threw: the
\* user keeps the old text and picture
C20_Witness ==
    \E s \in Slots :
        LET r == req[s] IN
        /\ r.op = "updateMyProfile"
        /\ r.text = "t1"
        /\ r.upOut = "error"
        /\ r.pc = "done"
        /\ r.status = 500
        /\ db["user"][r.target].text = "t0"
        /\ db["user"][r.target].url = r.oldUrl

\* ------------------------------------------------ awaited calls, concurrency
\* the request had a remote delete to make: a delete controller that found
\* a public id, an update controller whose upload was accepted while the
\* entity had an old asset
IssuedDestroy(r) ==
    /\ r.old # Null
    /\ \/ r.op \in DeleteOps /\ r.existed /\ MayDelete(r)
       \/ r.op \in UpdateOps /\ r.upOut = "ok"

\* C21: in every operation that issues a remote delete call, the response
\* of that request is sent only after the delete call has settled; no
\* response is sent while the request's delete call is outstanding.
C21_ResponseAfterDestroySettled ==
    \A s \in DOMAIN req :
        LET r == req[s] IN
        /\ r.pc = "destroy" => r.status = 0
        /\ (r.status # 0 /\ IssuedDestroy(r)) =>
              /\ r.delOut \in DestroyOutcomes
              /\ \E c \in calls : c.call = "destroy" /\ c.req = r.n /\ c.pid = r.old
              /\ r.trace[Len(r.trace)] # "destroy"
              /\ \/ Precedes(r.trace, "destroy", "save")
                 \/ Precedes(r.trace, "destroy", "save_failed")
                 \/ Precedes(r.trace, "destroy", "remove")

\* a business update answered 200 after the destroy of its old image threw
C21_Witness ==
    \E s \in DOMAIN req :
        LET r == req[s] IN
        /\ r.op = "updateBusiness"
        /\ r.status = 200
        /\ r.old # Null
        /\ r.delOut = "error"
        /\ r.trace = <<"upload", "destroy", "save">>

\* the remote call of the request in slot s has been issued and has not
\* returned
Outstanding(s) == req[s].pc \in {"upload", "destroy"}

\* the request in slot t can take its next step
CanProceed(t) ==
    CASE req[t].pc = "upload" -> ENABLED Upload(t)
      [] req[t].pc = "destroy" -> ENABLED Destroy(t)
      [] req[t].pc = "save" -> ENABLED Save(t)
      [] req[t].pc = "remove" -> ENABLED Remove(t)
      [] OTHER -> started < MaxRaceRequests => ENABLED RaceRoute(t)

\* C22: while a remote upload or delete call issued by one request has not
\* returned, that request has sent no response, and every other request,
\* on the same or another entity, can still take its next step (and a new
\* request can still be received): the outstanding call blocks nothing but
\* its own request.
C22_HungCallBlocksOnlyIssuer ==
    \A s \in DOMAIN req :
        Outstanding(s) =>
            /\ req[s].status = 0
            /\ \A t \in DOMAIN req \ {s} : CanProceed(t)

\* a request on the same event was received and answered while the upload
\* of an earlier request on it had not returned
C22_Witness ==
    \E s, t \in DOMAIN req :
        /\ s # t
        /\ req[s].op = "updateEvent"
        /\ req[s].pc = "upload"
        /\ req[s].status = 0
        /\ req[t].op = "updateEvent"
        /\ req[t].target = req[s].target
        /\ req[t].n > req[s].n
        /\ req[t].pc = "done"
        /\ req[t].status = 200
        /\ req[t].upOut = "ok"

\* the request has replaced the image of its entity: uploaded, saved,
\* answered 200
Replaced(r) ==
    /\ r.op \in {"updateEvent", "updateBusiness"}
    /\ r.pc = "done"
    /\ r.status = 200
    /\ r.upOut = "ok"
    /\ r.trace[Len(r.trace)] = "save"

\* asset pid is held by the remote store, no delete call was ever made for
\* it, and no document references it
Orphaned(pid, store, held, made) ==
    /\ \E a \in held : a.pid = pid
    /\ ~\E c \in made : c.call = "destroy" /\ c.pid = pid
    /\ \A k \in Kinds \ {"user"} : \A i \in DocIds :
          store[k][i].live => AssetOf(store[k][i]) # pid

\* C23: two concurrent replace-media requests on the same entity are not
\* serialized.  Both read the same old image, both upload, both save; when
\* the second of them saves (no third request being at work on the
\* entity), the entity references the asset of that last save and the
\* asset the other request uploaded stays on the remote store, referenced
\* by no entity and never the subject of a delete call.
C23_ConcurrentReplaceLastWriteWins ==
    [][\A s, t \in DOMAIN req :
          LET r    == req[s]
              r1   == req'[s]
              o    == req[t]
              kind == KindOf(r.op)
          IN  (/\ s # t
               /\ r.pc = "save"
               /\ Replaced(r1)
               /\ Replaced(o)
               /\ o.op = r.op
               /\ o.target = r.target
               /\ o.old = r.old
               /\ db[kind][r.target].pid = o.up.public_id
               /\ \A u \in DOMAIN req \ {s, t} :
                     req[u].pc \in {"idle", "done"} \/ req[u].target # r.target
                        \/ req[u].op = "updateMyProfile") =>
                 /\ db'[kind][r.target].pid = r.up.public_id
                 /\ db'[kind][r.target].url = r.up.secure_url
                 /\ r.up.public_id # o.up.public_id
                 /\ Orphaned(o.up.public_id, db', remote', calls')]_vars

\* two updates of the same event have both answered 200; the event
\* references the image of the one received first, which saved last, and
\* the other's image is orphaned
C23_Witness ==
    \E s, t \in DOMAIN req :
        /\ s # t
        /\ Replaced(req[s])
        /\ Replaced(req[t])
        /\ req[s].op = "updateEvent"
        /\ req[t].op = "updateEvent"
        /\ req[s].target = req[t].target
        /\ req[s].old = req[t].old
        /\ req[s].n < req[t].n
        /\ db["event"][req[s].target].pid = req[s].up.public_id
        /\ Orphaned(req[t].up.public_id, db, remote, calls)
        /\ Cardinality({c \in calls : c.call = "upload" /\ c.pid # Null}) = 2

\* ------------------------------------------------------- asset lifecycle
\* Where the asset with public id pid stands, read off the document store
\* `store`, the assets `held` remotely, the ids `destroyed` and the
\* requests `reqs`: gone once a destroy of it has succeeded; detaching
\* while a delete call for it is outstanding; attached while a document
\* references it; uploading while the request that uploaded it is still at
\* work; stray when it is held remotely in none of these; none before it
\* exists.
AssetState(pid, store, held, destroyed, reqs) ==
    IF pid \in destroyed THEN "gone"
    ELSE IF \E s \in DOMAIN reqs : reqs[s].pc = "destroy" /\ reqs[s].old = pid
    THEN "detaching"
    ELSE IF \E k \in Kinds : \E i \in Ids(k) :
               store[k][i].live /\ AssetOf(store[k][i]) = pid
    THEN "attached"
    ELSE IF \E s \in DOMAIN reqs :
               reqs[s].pc \notin {"idle", "done"} /\ reqs[s].up.public_id = pid
    THEN "uploading"
    ELSE IF \E a \in held : a.pid = pid THEN "stray"
    ELSE "none"

\* the moves of the stated lifecycle (replacing is the attached asset of an
\* entity whose replacement is being uploaded)
LifecycleMoves ==
    {<<"none", "uploading">>, <<"uploading", "attached">>,
     <<"attached", "detaching">>, <<"detaching", "gone">>}

\* C24: every asset only moves along none -> uploading -> attached ->
\* (replacing -> attached)* -> detaching -> gone: an uploaded asset becomes
\* attached to a persisted entity, an asset is destroyed only from
\* detaching after having been attached, attached is left only by an
\* operation, and nothing leaves gone.
C24_AssetFollowsLifecycle ==
    [][\A c \in calls' :
          (c.call = "upload" /\ c.pid # Null) =>
             LET before == AssetState(c.pid, db, remote, gone, req)
                 after  == AssetState(c.pid, db', remote', gone', req')
             IN  before # after => <<before, after>> \in LifecycleMoves]_vars

AppNamespace == <<"p", "a", "t", "w", "a", "_", "t", "o", "l", "i">>

\* the folder name of each entity kind
KindFolder(kind) ==
    CASE kind = "post" -> <<"p", "o", "s", "t", "s">>
      [] kind = "story" -> <<"s", "t", "o", "r", "i", "e", "s">>
      [] kind = "event" -> <<"e", "v", "e", "n", "t", "s">>
      [] kind = "business" -> <<"b", "u", "s", "i", "n", "e", "s", "s", "e", "s">>
      [] kind = "user" -> <<"p", "r", "o", "f", "i", "l", "e", "-", "p", "i", "c", "s">>

\* C26: every upload call is made with the folder
\* '<app-namespace>/<entity-kind>' of the kind the operation acts on (posts,
\* stories, events, businesses, profile-pics); the asset it stores lies in
\* that folder and in no other kind's.
C26_UploadFolderOfKind ==
    \A s \in DOMAIN req : \A c \in calls :
        (c.call = "upload" /\ c.req = req[s].n) =>
            LET kind == KindOf(req[s].op) IN
            /\ c.folder = AppNamespace \o <<"/">> \o KindFolder(kind)
            /\ c.pid # Null => StartsWith(c.pid, c.folder \o <<"/">>)
            /\ \A k \in Kinds \ {kind} :
                  ~StartsWith(c.folder \o <<"/">>, AppNamespace \o <<"/">> \o KindFolder(k) \o <<"/">>)

\* a business image was replaced through an upload into the businesses
\* folder
C26_Witness ==
    \E s \in DOMAIN req : \E c \in calls :
        /\ req[s].op = "updateBusiness"
        /\ req[s].pc = "done"
        /\ req[s].status = 200
        /\ c.call = "upload"
        /\ c.req = req[s].n
        /\ c.folder = FOLDER_businesses
        /\ db["business"][req[s].target].pid = c.pid

\* C27: createPost accepts a post that has media and no text content: once
\* the media upload has succeeded the post is persisted with it and 201 is
\* answered, so the uploaded asset is not left without a post.
C27_MediaOnlyPostPersisted ==
    \A s \in DOMAIN req :
        LET r == req[s] IN
        (/\ r.op = "createPost"
         /\ r.text = ""
         /\ PostFile(r.files).present
         /\ r.pc = "done"
         /\ r.upOut = "ok") =>
            /\ r.status = 201
            /\ \E i \in DocIds :
                  /\ db["post"][i].live
                  /\ db["post"][i].url = r.up.secure_url

\* C28: a post created with media persists the handle the upload returned
\* together with the URL, and deletePost deletes by the stored handle,
\* deriving one from the URL only for a post that has none stored.
C28_PostStoresHandle ==
    \A s \in DOMAIN req :
        LET r == req[s] IN
        /\ (r.op = "createPost" /\ r.pc = "done" /\ r.status = 201 /\ r.upOut = "ok") =>
              /\ db["post"][r.target].url = r.up.secure_url
              /\ db["post"][r.target].pid = r.up.public_id
        /\ (r.op = "deletePost" /\ r.pc = "destroy") =>
              /\ db["post"][r.target].pid # Null => r.old = db["post"][r.target].pid
              /\ db["post"][r.target].pid = Null =>
                    r.old = getPublicIdFromUrl(db["post"][r.target].url)

\* ----------------------------------------------------------- authorization
\* the operations that act on an entity named by the request
TargetedOps == (UpdateOps \cup DeleteOps) \ {"updateMyProfile"}

\* the caller may act on the entity: its owner (organizer), or an admin,
\* except on stories
Authorized(r) == r.byOwner \/ (r.byAdmin /\ KindOf(r.op) # "story")

STR_Bearer == <<"B", "e", "a", "r", "e", "r">>

\* tokens: signed for a registered user, signed for a user since deleted,
\* signed and expired, not a signed token
TOKEN_live == <<"t", "1">>
TOKEN_deleted == <<"t", "0">>
TOKEN_expired == <<"t", "x">>
TOKEN_bad == <<"b">>

Tokens == {TOKEN_live, TOKEN_deleted, TOKEN_expired, TOKEN_bad}

\* the Authorization headers of incoming requests: none, another scheme,
\* 'Bearer' alone, 'Bearer ' with nothing after the space, and 'Bearer '
\* followed by each token
AuthHeaders ==
    {Null, <<"B", "a", "s", "i", "c", " ">> \o TOKEN_live, STR_Bearer,
     STR_Bearer \o <<" ">>}
    \cup {STR_Bearer \o <<" ">> \o t : t \in Tokens}

\* jwt.verify(token, secret): the decoded id, or the name of the error it
\* throws (a missing or empty token is a JsonWebTokenError)
jwtVerify(token) ==
    CASE token = TOKEN_live -> [name |-> "", id |-> 1]
      [] token = TOKEN_deleted -> [name |-> "", id |-> 0]
      [] token = TOKEN_expired -> [name |-> "TokenExpiredError", id |-> 0]
      [] OTHER -> [name |-> "JsonWebTokenError", id |-> 0]

\* res.status(401).json(...): the response goes out, unless one has gone
\* out already, in which case the call throws
Send401(a) ==
    IF a.status # 0 THEN [a EXCEPT !.sends = @ + 1, !.threw = TRUE]
    ELSE [a EXCEPT !.sends = @ + 1, !.status = 401]

\* the statement after the if-block of protect: if (!token) send 401
protect_tail(a) ==
    [(IF a.token = Null THEN Send401(a) ELSE a) EXCEPT !.pc = "done"]

\* protect up to its await of User.findById, or to its end
protect_begin(a, header) ==
    LET parts   == Split(header, " ")
        token   == IF Len(parts) >= 2 THEN parts[2] ELSE Null
        decoded == jwtVerify(token)
        a0      == [a EXCEPT !.n = @ + 1, !.header = header, !.token = Null,
                             !.id = 0, !.sends = 0, !.nexts = 0, !.status = 0,
                             !.threw = FALSE]
    IN  IF header # Null /\ StartsWith(header, STR_Bearer)
        THEN IF decoded.name # ""
             THEN protect_tail(Send401([a0 EXCEPT !.token = token]))
             ELSE [a0 EXCEPT !.token = token, !.id = decoded.id, !.pc = "lookup"]
        ELSE protect_tail(a0)

\* what protect did on a request
AuthOutcome(a) ==
    [header |-> a.header, sends |-> a.sends, nexts |-> a.nexts, threw |-> a.threw]

\* a request comes in on a protected route and protect runs on its header
ProtectEnter ==
    /\ auth.pc \in {"idle", "done"}
    /\ auth.n < MaxAuthRequests
    /\ \E header \in AuthHeaders :
          auth' = protect_begin(
                     [auth EXCEPT !.log = IF auth.pc = "done"
                                          THEN @ \cup {AuthOutcome(auth)} ELSE @],
                     header)
    /\ UNCHANGED <<db, nextDoc, remote, uploads, gone, calls, req, started, helper, following, followers, follow, accounts, acct, issued>>

\* User.findById(decoded.id) settles: the user, null, or a rejection
ProtectLookup ==
    /\ auth.pc = "lookup"
    /\ \E out \in {"settled", "rejected"} :
          LET found == auth.id \in Users /\ db["user"][auth.id].live
          IN  auth' = IF out = "rejected" THEN protect_tail(Send401(auth))
                      ELSE IF ~found THEN [Send401(auth) EXCEPT !.pc = "done"]
                      ELSE protect_tail([auth EXCEPT !.nexts = @ + 1])
    /\ UNCHANGED <<db, nextDoc, remote, uploads, gone, calls, req, started, helper, following, followers, follow, accounts, acct, issued>>

ProtectNext ==
    \/ ProtectEnter
    \/ ProtectLookup

ProtectSpec == Init /\ [][ProtectNext]_vars

\* C30: protect finishes every request in exactly one way: it calls next()
\* once and sends nothing, or it sends one 401 response and does not call
\* next(); for every Authorization header, among them none, 'Bearer' with
\* no token, an invalid or expired token, a valid token of a deleted user.
C30_ProtectFinishesOneWay ==
    /\ auth.pc = "lookup" => (auth.sends = 0 /\ auth.nexts = 0)
    /\ auth.pc = "done" =>
          /\ ~auth.threw
          /\ \/ auth.nexts = 1 /\ auth.sends = 0 /\ auth.status = 0
             \/ auth.nexts = 0 /\ auth.sends = 1 /\ auth.status = 401

\* ------------------------------------------------------ follow / unfollow
\* POST and DELETE /api/users/:userId/follow, handled FollowSlots at a time
FollowSlots == 1..MaxConcurrent

FollowOps == {"followUser", "unfollowUser"}

\* the ids held by a stored array
Elems(list) == {list[i] : i \in 1..Len(list)}

\* MongoDB's $addToSet on an array field
AddToSet(list, x) == IF x \in Elems(list) THEN list ELSE Append(list, x)

\* MongoDB's $pull on an array field: every occurrence goes
Pull(list, x) ==
    LET Keep(e) == e # x
    IN  SelectSeq(list, Keep)

\* a user that signed up and waits for approval
PendingAccount(u) ==
    [live |-> TRUE, id |-> u, verified |-> FALSE, isAdmin |-> FALSE,
     profilePic |-> DEFAULT_AVATAR_PATH]

\* the users of a run: members, users waiting for approval and ids under
\* which no record exists; nobody follows anybody yet
FollowInit ==
    /\ db = [k \in Kinds |-> [i \in Ids(k) |-> IF k = "user" THEN UserDoc(i) ELSE BlankDoc]]
    /\ nextDoc = [k \in Kinds \ {"user"} |-> 1]
    /\ remote = {}
    /\ uploads = 0
    /\ gone = {}
    /\ calls = {}
    /\ req = [s \in Slots |-> IdleReq]
    /\ started = 0
    /\ helper = IdleHelper
    /\ auth = IdleAuth
    /\ following = NoFollows
    /\ followers = NoFollows
    /\ follow = [s \in FollowSlots |-> IdleFollow]
    /\ \E pending \in SUBSET Users, missing \in SUBSET Users :
          /\ pending \cap missing = {}
          /\ Cardinality(pending \cup missing) <= 1
          /\ accounts = [u \in Users |->
                            IF u \in pending THEN PendingAccount(u)
                            ELSE IF u \in missing THEN NoAccount
                            ELSE MemberAccount(u)]
    /\ acct = [s \in Slots |-> IdleAcct]
    /\ issued = {}

\* the request reaches the controller: protect has let it through, so the
\* caller is a member; the two tests before the try block
FollowReceive(s) ==
    /\ follow[s].pc \in {"idle", "done"}
    /\ started < MaxFollowRequests
    /\ \E op \in FollowOps, caller \in Users, target \in Users :
          /\ accounts[caller].live /\ accounts[caller].verified
          /\ follow' = [follow EXCEPT ![s] =
                [IdleFollow EXCEPT
                    !.n = started + 1, !.op = op, !.caller = caller,
                    !.target = target,
                    !.pc = IF target = caller THEN "done" ELSE "find",
                    !.status = IF target = caller
                               THEN GlobalErrorHandler(PlainError).status
                               ELSE 0]]
    /\ started' = started + 1
    /\ UNCHANGED <<db, nextDoc, remote, uploads, gone, calls, req, helper, auth,
                   following, followers, accounts, acct, issued>>

\* Promise.all of the two findById calls settles
FollowFind(s) ==
    LET f == follow[s] IN
    /\ f.pc = "find"
    /\ follow' = [follow EXCEPT ![s] =
          IF ~accounts[f.target].live \/ ~accounts[f.caller].live
          THEN [f EXCEPT !.pc = "done",
                         !.status = GlobalErrorHandler(StatusError(404)).status]
          ELSE IF f.op = "followUser" /\ ~accounts[f.target].verified
          THEN [f EXCEPT !.pc = "done",
                         !.status = GlobalErrorHandler(PlainError).status]
          ELSE [f EXCEPT !.pc = "first"]]
    /\ UNCHANGED <<db, nextDoc, remote, uploads, gone, calls, req, started, helper,
                   auth, following, followers, accounts, acct, issued>>

\* the first findByIdAndUpdate settles: the caller's `following`
FollowFirst(s) ==
    LET f == follow[s] IN
    /\ f.pc = "first"
    /\ following' = [following EXCEPT ![f.caller] =
          IF f.op = "followUser" THEN AddToSet(@, f.target) ELSE Pull(@, f.target)]
    /\ follow' = [follow EXCEPT ![s].pc = "second"]
    /\ UNCHANGED <<db, nextDoc, remote, uploads, gone, calls, req, started, helper,
                   auth, followers, accounts, acct, issued>>

\* the second findByIdAndUpdate settles: the target's `followers`; the
\* response follows
FollowSecond(s) ==
    LET f == follow[s] IN
    /\ f.pc = "second"
    /\ followers' = [followers EXCEPT ![f.target] =
          IF f.op = "followUser" THEN AddToSet(@, f.caller) ELSE Pull(@, f.caller)]
    /\ follow' = [follow EXCEPT ![s] = [f EXCEPT !.pc = "done", !.status = 200]]
    /\ UNCHANGED <<db, nextDoc, remote, uploads, gone, calls, req, started, helper,
                   auth, following, accounts, acct, issued>>

FollowNext ==
    \/ \E s \in FollowSlots : FollowReceive(s)
    \/ \E s \in FollowSlots : FollowFind(s)
    \/ \E s \in FollowSlots : FollowFirst(s)
    \/ \E s \in FollowSlots : FollowSecond(s)

FollowSpec == FollowInit /\ [][FollowNext]_vars

\* no follow or unfollow request is under way
FollowsSettled == \A s \in DOMAIN follow : follow[s].pc \in {"idle", "done"}

\* no id occurs twice in a stored array
NoDuplicates(list) == Cardinality(Elems(list)) = Len(list)

\* C31: once every concurrent follow and unfollow request has run to
\* completion, B is in A's following exactly when A is in B's followers, for
\* all users A and B, and no id occurs twice in either list.
C31_FollowRelationSymmetric ==
    FollowsSettled =>
        /\ \A a \in Users, b \in Users :
              b \in Elems(following[a]) <=> a \in Elems(followers[b])
        /\ \A u \in Users : NoDuplicates(following[u]) /\ NoDuplicates(followers[u])

\* ------------------------------------------- signup, login, approve, reject
\* /api/auth/signup, /api/auth/login and the admin routes approve and
\* reject, handled AcctSlots at a time
AcctSlots == 1..MaxConcurrent

AcctOps == {"signup", "login", "approveUser", "rejectUser"}

\* request bodies of signup: the required fields; the required fields and
\* with them verified: true, isAdmin: true; a body that lacks a required field
SignupBodies == {"fields", "fields+flags", "incomplete"}

\* the storage engine of every multer instance
storage == "memory"

\* JavaScript's undefined, as a value a string can be compared with
Undefined == <<"(undefined)">>

\* what a template literal makes of undefined
STR_undefined ==
    <<"u", "n", "d", "e", "f", "i", "n", "e", "d">>

\* the directory signup builds the profilePic path in
STR_uploads_profile_pics ==
    <<"/", "u", "p", "l", "o", "a", "d", "s", "/", "p", "r", "o", "f", "i", "l", "e", "-", "p", "i", "c", "s", "/">>

\* a name of the kind the disk engine generates
STR_disk_name ==
    <<"p", "i", "c", "-", "1", ".", "p", "n", "g">>

\* req.file.filename: set by the disk engine, absent from a file kept in memory
Filename(engine) == IF engine = "disk" THEN STR_disk_name ELSE Undefined

\* the paths multer writes while it takes in a file: the memory engine keeps
\* the bytes in req.file.buffer and writes nothing
MulterWrites(engine, file) ==
    IF engine = "disk" /\ file.present
    THEN {STR_uploads_profile_pics \o STR_disk_name}
    ELSE {}

\* `${value}` in a template literal
Interpolate(value) == IF value = Undefined THEN STR_undefined ELSE value

\* variant: signup takes verified and isAdmin from the request body
SignupDoc_frombody(r) ==
    [live |-> TRUE, id |-> r.n,
     verified |-> r.body = "fields+flags", isAdmin |-> r.body = "fields+flags",
     profilePic |-> IF r.file.present
                    THEN STR_uploads_profile_pics \o Interpolate(Filename(storage))
                    ELSE DEFAULT_AVATAR_PATH]

\* the user signup builds: verified and isAdmin are written out as false,
\* profilePic is the built path when req.file is set and the schema default
\* otherwise
SignupDoc(r) ==
    [live |-> TRUE, id |-> r.n, verified |-> FALSE, isAdmin |-> FALSE,
     profilePic |-> IF r.file.present
                    THEN STR_uploads_profile_pics \o Interpolate(Filename(storage))
                    ELSE DEFAULT_AVATAR_PATH]

\* login's test after the password matched
LoginAllowed(user) == user.verified

\* the seeded administrator is the one record of a fresh installation
AcctInit ==
    /\ db = [k \in Kinds |-> [i \in Ids(k) |-> IF k = "user" THEN UserDoc(i) ELSE BlankDoc]]
    /\ nextDoc = [k \in Kinds \ {"user"} |-> 1]
    /\ remote = {}
    /\ uploads = 0
    /\ gone = {}
    /\ calls = {}
    /\ req = [s \in Slots |-> IdleReq]
    /\ started = 0
    /\ helper = IdleHelper
    /\ auth = IdleAuth
    /\ following = NoFollows
    /\ followers = NoFollows
    /\ follow = [s \in Slots |-> IdleFollow]
    /\ accounts = [u \in Users |-> IF IsAdmin(u) THEN MemberAccount(u) ELSE NoAccount]
    /\ acct = [s \in AcctSlots |-> IdleAcct]
    /\ issued = {}

AcctAnswer(r, status) == [r EXCEPT !.pc = "done", !.status = status]

AcctFail(r, err) == AcctAnswer(r, GlobalErrorHandler(err).status)

\* what the record of username u is now for a handler that read `seen`
\* earlier: the same record, or none under that _id any more
SameRecord(u, seen) == accounts[u].live /\ accounts[u].id = seen.id

\* a request arrives: multer for signup, protect and admin for the admin
\* routes, then the synchronous head of the controller
AcctReceive(s) ==
    /\ acct[s].pc \in {"idle", "done"}
    /\ started < MaxAccountRequests
    /\ \E op \in AcctOps, u \in Users :
       \E body \in (IF op = "signup" THEN SignupBodies ELSE {""}),
          password \in (IF op = "login" THEN BOOLEAN ELSE {FALSE}),
          file \in (IF op = "signup" THEN {NoFile, File(MIME_image_png, 2 * MB)} ELSE {NoFile}) :
          LET mcode == MulterFile(ClassOf(op), file)
              r == [IdleAcct EXCEPT
                       !.n = started + 1, !.op = op,
                       !.username = IF op \in {"signup", "login"} THEN u ELSE 0,
                       !.target = IF op \in {"approveUser", "rejectUser"} THEN u ELSE 0,
                       !.body = body, !.password = password, !.file = file,
                       !.wrote = MulterWrites(storage, file)]
          IN  acct' = [acct EXCEPT ![s] =
                  IF mcode # "" THEN AcctFail(r, MulterError(mcode))
                  ELSE IF op = "signup" /\ body = "incomplete" THEN AcctFail(r, PlainError)
                  ELSE [r EXCEPT !.pc = "find"]]
    /\ started' = started + 1
    /\ UNCHANGED <<db, nextDoc, remote, uploads, gone, calls, req, helper, auth,
                   following, followers, follow, accounts, issued>>

\* the controller's lookup settles (findOne by username, findById by id)
AcctFind(s) ==
    LET r    == acct[s]
        u    == IF r.op \in {"signup", "login"} THEN r.username ELSE r.target
        user == accounts[u]
    IN  /\ r.pc = "find"
        /\ acct' = [acct EXCEPT ![s] =
              CASE r.op = "signup" ->
                      IF user.live THEN AcctFail(r, StatusError(400))
                      ELSE [r EXCEPT !.pc = "save"]
                [] r.op = "login" ->
                      IF ~user.live THEN AcctFail(r, StatusError(401))
                      ELSE [r EXCEPT !.pc = "compare", !.seen = user]
                [] r.op = "approveUser" ->
                      IF ~user.live THEN AcctFail(r, StatusError(404))
                      ELSE IF user.verified THEN AcctFail(r, StatusError(400))
                      ELSE [r EXCEPT !.pc = "save", !.seen = user]
                [] r.op = "rejectUser" ->
                      IF ~user.live THEN AcctFail(r, StatusError(404))
                      ELSE IF user.verified THEN AcctFail(r, StatusError(400))
                      ELSE [r EXCEPT !.pc = "delete", !.seen = user]]
        /\ UNCHANGED <<db, nextDoc, remote, uploads, gone, calls, req, started, helper,
                       auth, following, followers, follow, accounts, issued>>

\* user.comparePassword settles; login then tests `verified` on the record
\* it read and answers, with a token or with 403
AcctCompare(s) ==
    LET r == acct[s] IN
    /\ r.pc = "compare"
    /\ IF ~r.password
       THEN /\ acct' = [acct EXCEPT ![s] = AcctFail(r, StatusError(401))]
            /\ UNCHANGED issued
       ELSE IF ~LoginAllowed(r.seen)
       THEN /\ acct' = [acct EXCEPT ![s] = AcctFail(r, StatusError(403))]
            /\ UNCHANGED issued
       ELSE /\ acct' = [acct EXCEPT ![s] = [AcctAnswer(r, 200) EXCEPT !.token = TRUE]]
            /\ issued' = issued \cup
                  {[n |-> r.n, user |-> r.username, id |-> r.seen.id,
                    stored |-> IF ~SameRecord(r.username, r.seen) THEN "gone"
                               ELSE IF accounts[r.username].verified THEN "verified"
                               ELSE "pending"]}
    /\ UNCHANGED <<db, nextDoc, remote, uploads, gone, calls, req, started, helper,
                   auth, following, followers, follow, accounts>>

\* user.save() settles: signup's insert, refused by the unique index when
\* the username has been taken meanwhile; approveUser's update, which finds
\* nothing to update when the record has been deleted meanwhile
AcctSave(s) ==
    LET r == acct[s] IN
    /\ r.pc = "save"
    /\ \/ /\ r.op = "signup"
          /\ IF accounts[r.username].live
             THEN /\ acct' = [acct EXCEPT ![s] = AcctFail(r, DuplicateKeyError)]
                  /\ UNCHANGED accounts
             ELSE /\ accounts' = [accounts EXCEPT ![r.username] = SignupDoc(r)]
                  /\ acct' = [acct EXCEPT ![s] =
                                 [AcctAnswer(r, 201) EXCEPT !.seen = SignupDoc(r)]]
       \/ /\ r.op = "approveUser"
          /\ IF SameRecord(r.target, r.seen)
             THEN /\ accounts' = [accounts EXCEPT ![r.target].verified = TRUE]
                  /\ acct' = [acct EXCEPT ![s] = AcctAnswer(r, 200)]
             ELSE /\ UNCHANGED accounts
                  /\ \E status \in {200, 500} :
                        acct' = [acct EXCEPT ![s] = AcctAnswer(r, status)]
    /\ UNCHANGED <<db, nextDoc, remote, uploads, gone, calls, req, started, helper,
                   auth, following, followers, follow, issued>>

\* rejectUser's findByIdAndDelete settles: the record of that _id goes, as
\* it is now
AcctDelete(s) ==
    LET r == acct[s] IN
    /\ r.pc = "delete"
    /\ accounts' = IF SameRecord(r.target, r.seen)
                   THEN [accounts EXCEPT ![r.target] = NoAccount]
                   ELSE accounts
    /\ acct' = [acct EXCEPT ![s] = AcctAnswer(r, 200)]
    /\ UNCHANGED <<db, nextDoc, remote, uploads, gone, calls, req, started, helper,
                   auth, following, followers, follow, issued>>

AcctNext ==
    \/ \E s \in AcctSlots : AcctReceive(s)
    \/ \E s \in AcctSlots : AcctFind(s)
    \/ \E s \in AcctSlots : AcctCompare(s)
    \/ \E s \in AcctSlots : AcctSave(s)
    \/ \E s \in AcctSlots : AcctDelete(s)

AcctSpec == AcctInit /\ [][AcctNext]_vars

\* C32: no token is issued for a user whose verified flag is false. A
\* signup that succeeds creates the user with verified = false and
\* isAdmin = false whatever the body carries, and no signup returns a token;
\* a login with the right password for a user that is not verified is
\* answered 403 without a token.
C32_NoTokenForUnverified ==
    /\ \A t \in issued : t.stored # "pending"
    /\ \A s \in DOMAIN acct :
          LET r == acct[s] IN
          /\ (r.op = "signup" /\ r.pc = "done") =>
                /\ ~r.token
                /\ r.status = 201 => (~r.seen.verified /\ ~r.seen.isAdmin)
          /\ (r.op = "login" /\ r.pc = "done" /\ r.password
                /\ r.seen.live /\ ~r.seen.verified) =>
                (r.status = 403 /\ ~r.token)
          /\ r.token => (r.op = "login" /\ r.seen.verified)

\* a user other than the seeded administrator holds a token: the user
\* signed up, an admin approved, and the login that followed was answered
\* with a token
C32_Witness ==
    /\ \E t \in issued : ~IsAdmin(t.user) /\ t.stored = "verified"
    /\ \E s \in DOMAIN acct : acct[s].op = "login" /\ acct[s].token

\* the upload calls a request has made
UploadsOf(r) == {c \in calls : c.call = "upload" /\ c.req = r.n}

\* C33: a createPost request that carries both an image and a video makes
\* exactly one upload call, with the file of the image field, and never
\* sends the video; the post it creates holds the uploaded URL as its image
\* and has no video.
C33_BothFilesImageWins ==
    \A s \in DOMAIN req :
        LET r == req[s] IN
        (/\ r.op = "createPost"
         /\ r.files[1].present
         /\ r.files[2].present) =>
            /\ \A c \in UploadsOf(r) : c.sent = r.files[1]
            /\ Cardinality(UploadsOf(r)) = (IF r.pc = "upload" THEN 0 ELSE 1)
            /\ r.status = 201 =>
                  /\ db["post"][r.target].live
                  /\ db["post"][r.target].url = r.up.secure_url
                  /\ db["post"][r.target].mtype = "image"
                  /\ \A a \in remote :
                        a.pid = r.up.public_id =>
                            a.rtype = (IF StartsWith(r.files[1].mime, STR_video)
                                       THEN "video" ELSE "image")

\* a post with text, a PNG in the image field and an MP4 in the video field
\* has been created: one asset, an image, is on the remote store
C33_Witness ==
    \E s \in DOMAIN req :
        LET r == req[s] IN
        /\ r.op = "createPost"
        /\ r.files[1].present /\ r.files[1].mime = MIME_image_png
        /\ r.files[2].present /\ r.files[2].mime = MIME_video_mp4
        /\ r.status = 201
        /\ db["post"][r.target].url = r.up.secure_url
        /\ Cardinality(UploadsOf(r)) = 1

\* C34: every remote delete call carries a resource kind that matches the
\* asset it is aimed at, given outright or left to the remote store to
\* infer ('auto'): deletePost passes 'video' exactly when the post has a
\* video and 'image' otherwise, and no video asset is deleted as an 'image'.
C34_DeleteKindMatchesAsset ==
    [][\A c \in calls' \ calls :
          c.call = "destroy" =>
              /\ c.rtype \in {"image", "video", "auto"}
              /\ \A s \in DOMAIN req :
                    (req[s].n = c.req /\ req[s].op = "deletePost") =>
                        c.rtype = (IF db["post"][req[s].target].mtype = "video"
                                   THEN "video" ELSE "image")
              /\ \A a \in remote :
                    a.pid = c.pid => (c.rtype = "auto" \/ c.rtype = a.rtype)]_vars

\* an update request that carries no new media file
PlainUpdate(r) == r.op \in UpdateOps /\ ~r.files[1].present

\* C35: an update request (updateMyProfile, updateEvent, updateBusiness)
\* without a new media file makes no upload call and no remote delete call,
\* and no step of it changes the entity's media URL or stored handle.
C35_UpdateWithoutFileKeepsMedia ==
    [][\A s \in DOMAIN req :
          (req'[s] # req[s] /\ PlainUpdate(req'[s])) =>
              LET r    == req'[s]
                  kind == KindOf(r.op)
              IN  /\ ~\E c \in calls' : c.req = r.n
                  /\ \A i \in DOMAIN db[kind] :
                        /\ db'[kind][i].url = db[kind][i].url
                        /\ db'[kind][i].pid = db[kind][i].pid]_vars

\* an event that has an image and a stored handle got a new title from an
\* update without a file, answered 200
C35_Witness ==
    \E s \in DOMAIN req :
        LET r == req[s] IN
        /\ r.op = "updateEvent"
        /\ ~r.files[1].present
        /\ r.status = 200
        /\ db["event"][r.target].text = "t1"
        /\ db["event"][r.target].pid # Null
        /\ db["event"][r.target].url # Null
        /\ ~\E c \in calls : c.req = r.n

\* the record of user u is on file and waits for approval
Pending(u) == accounts[u].live /\ ~accounts[u].verified

\* the record of user u is on file and approved
Verified(u) == accounts[u].live /\ accounts[u].verified

\* C36: a user's verification status moves only from pending to verified
\* (approveUser) or from pending to deleted (rejectUser). A verified record
\* stays as it is under every admin operation: approving or rejecting a
\* verified user is answered 400, and nothing turns a verified user into an
\* unverified one or removes it.
C36_VerificationOnlyMovesForward ==
    [][/\ \A u \in Users :
             /\ Verified(u) => accounts'[u] = accounts[u]
             /\ (Pending(u) /\ accounts'[u] # accounts[u]) =>
                   \/ accounts'[u] = [accounts[u] EXCEPT !.verified = TRUE]
                   \/ ~accounts'[u].live
       /\ \A s \in DOMAIN acct :
             (/\ acct[s].op \in {"approveUser", "rejectUser"}
              /\ acct[s].pc = "find"
              /\ acct'[s].pc # "find"
              /\ Verified(acct[s].target)) => acct'[s].status = 400]_vars

\* C37: a signup that carries an accepted profile picture stores the
\* uploaded bytes, and the profilePic of the user it creates is a location
\* the stored file can be fetched from (a path multer wrote, or the URL of an
\* asset the request uploaded); a signup without a picture creates the user
\* with the default placeholder path.
C37_SignupPictureStored ==
    \A s \in DOMAIN acct :
        LET r == acct[s] IN
        (r.op = "signup" /\ r.status = 201) =>
            IF r.file.present
            THEN \/ r.seen.profilePic \in r.wrote
                 \/ \E c \in calls :
                       /\ c.call = "upload"
                       /\ c.sent = r.file
                       /\ c.pid # Null
                       /\ getPublicIdFromUrl(r.seen.profilePic) = c.pid
            ELSE r.seen.profilePic = DEFAULT_AVATAR_PATH

\* the remote upload calls made by the last uploadToCloudinary
LastUploadCalls == {c \in calls : c.call = "upload" /\ c.req = helper.upN}

\* C38: uploadToCloudinary has exactly three outcomes. With no file it
\* resolves with null and makes no remote call; with a file that has no buffer
\* it rejects with the processing error and makes no remote call; otherwise it
\* makes exactly one remote upload call and either resolves with the
\* secure_url and public_id of that upload or rejects with the upload-failed
\* error.
C38_UploadThreeOutcomes ==
    helper.upN > 0 =>
        IF ~helper.upFile.present
        THEN /\ helper.upSettled = "resolved"
             /\ helper.upNull
             /\ LastUploadCalls = {}
        ELSE IF ~helper.upFile.buffer
        THEN /\ helper.upSettled = "rejected"
             /\ helper.upError = "process buffer"
             /\ LastUploadCalls = {}
        ELSE /\ Cardinality(LastUploadCalls) = 1
             /\ \A c \in LastUploadCalls :
                   /\ c.sent = helper.upFile
                   /\ \/ /\ helper.upSettled = "resolved"
                         /\ ~helper.upNull
                         /\ helper.up.public_id = c.pid
                         /\ c.pid # Null =>
                               /\ helper.up.secure_url # Null
                               /\ c.pid \in {a.pid : a \in remote} \cup gone
                      \/ /\ helper.upSettled = "rejected"
                         /\ helper.upError = "upload failed"
                         /\ helper.up = NoUploadResult

\* a file without a buffer was just refused without a remote call, after an
\* earlier call of the helper did upload a file
C38_Witness ==
    /\ helper.upN > 0
    /\ helper.upFile.present
    /\ ~helper.upFile.buffer
    /\ helper.upSettled = "rejected"
    /\ LastUploadCalls = {}
    /\ \E c \in calls : c.call = "upload" /\ c.pid # Null

====
